---- MODULE Spec2Model ----
(***************************************************************************)
(* Cryptic Crossings: the river-crossing engine                            *)
(* (part4_missionaries_cannibals.py, class MissionariesCannibalsGame).     *)
(*                                                                         *)
(* The variables are the fields of GameState, the character list and the   *)
(* move history of the engine.  Every public method of the engine is one   *)
(* action; the value a call returns is a function of the state it is made  *)
(* in, given by the operator named <method>_returns.                       *)
(***************************************************************************)
EXTENDS Integers, Sequences, FiniteSets, TLC

\* Bounds of the model: the populations and capacities initialize_game is
\* called with, and the number of crossings explored per game.
MaxM == 2
MaxC == 3
MaxK == 2
MaxMoves == 1

VARIABLES
    missionaries_left,   \* GameState.missionaries_left
    cannibals_left,      \* GameState.cannibals_left
    missionaries_right,  \* GameState.missionaries_right
    cannibals_right,     \* GameState.cannibals_right
    boat_side,           \* GameState.boat_side: "left" | "right"
    boat_crew,           \* GameState.boat_crew: sequence of character ids
    boat_capacity,       \* GameState.boat_capacity
    total_missionaries,  \* GameState.total_missionaries
    total_cannibals,     \* GameState.total_cannibals
    move_count,          \* GameState.move_count
    is_game_over,        \* GameState.is_game_over
    is_won,              \* GameState.is_won
    characters,          \* MissionariesCannibalsGame.characters
    move_history,        \* MissionariesCannibalsGame.move_history
    current_puzzle,      \* CryptarithmeticSolver.current_puzzle: <<>> is None
    solution_cache,      \* CryptarithmeticSolver.solution_cache
    level_data,          \* the level record the crypto UI works on
    current_guess,       \* CryptarithmeticUI.current_guess
    is_unlocked,         \* RiverCrossingUI.is_unlocked
    pending_checks,      \* _check_game_status callbacks queued by after()
    current_level,       \* CrypticCrossingsGame.current_level
    highest_level_completed, \* CrypticCrossingsGame.highest_level_completed
    saved_progress,      \* 'highest_level_completed' in the save file
    search_assignment,   \* _backtrack_solve: the assignment dict passed in
    search_remaining,    \* _backtrack_solve: remaining_letters passed in
    search_used_digits,  \* _backtrack_solve: the used_digits set passed in
    game,                \* cryptic_crossings.py: the CrypticCrossingsGame
    after_checks,        \* cryptic_crossings.py: check_game_status callbacks
                         \* queued by master.after(1000, ...)
    save_file            \* cryptic_crossings.py: the save file's content

counts == <<missionaries_left, cannibals_left, missionaries_right, cannibals_right>>

flags == <<is_game_over, is_won>>

totals == <<boat_capacity, total_missionaries, total_cannibals>>

vars == <<counts, boat_side, boat_crew, totals, move_count, flags,
          characters, move_history>>

\* the solver object, the crypto UI and the controller with its river UI
solver == <<current_puzzle, solution_cache>>

crypto_ui == <<level_data, current_guess>>

controller == <<is_unlocked, pending_checks, current_level,
                highest_level_completed, saved_progress>>

\* the arguments of one _backtrack_solve call
search == <<search_assignment, search_remaining, search_used_digits>>

\* the single-file program (cryptic_crossings.py)
single_file == <<game, after_checks, save_file>>

\* what the modular program's handlers never touch
apart == <<search, single_file>>

session == <<solver, crypto_ui, controller, apart>>

allvars == <<vars, session>>

\* enum Side, enum CharacterType (by value)
LEFT == "left"
RIGHT == "right"
MISSIONARY == "M"
CANNIBAL == "C"

\* f"M{char_id}" and f"C{char_id}"
MId(n) == "M" \o ToString(n)
CId(n) == "C" \o ToString(n)

\* the character ids the callers pass: every id some game of the bounds has,
\* so that each game also sees ids it does not have
Ids == {MId(n) : n \in 1..MaxM} \cup {CId(n) : n \in 1..(MaxM + MaxC)}

SeqToSet(s) == {s[i] : i \in 1..Len(s)}

\* initialize_game: the character list, missionaries first, one running id
InitialCharacters(missionaries, cannibals) ==
    [i \in 1..(missionaries + cannibals) |->
        IF i <= missionaries
        THEN [id |-> MId(i), type |-> MISSIONARY, location |-> LEFT]
        ELSE [id |-> CId(i), type |-> CANNIBAL, location |-> LEFT]]

\* is_safe_state with "outnumber" read as "are as many as"
is_safe_state_strict(m_left, c_left, m_right, c_right) ==
    IF m_left > 0 /\ c_left >= m_left THEN FALSE
    ELSE IF m_right > 0 /\ c_right >= m_right THEN FALSE
    ELSE TRUE

\* is_safe_state
is_safe_state(m_left, c_left, m_right, c_right) ==
    IF m_left > 0 /\ c_left > m_left THEN FALSE
    ELSE IF m_right > 0 /\ c_right > m_right THEN FALSE
    ELSE TRUE

is_current_state_safe ==
    is_safe_state(missionaries_left, cannibals_left,
                  missionaries_right, cannibals_right)

\* get_character: the position of the first character with that id, 0 for None
get_character(character_id) ==
    LET found == {i \in 1..Len(characters) : characters[i].id = character_id}
    IN  IF found = {} THEN 0
        ELSE CHOOSE i \in found : \A j \in found : i <= j

\* get_characters_on_side (positions in the character list)
get_characters_on_side(side) ==
    {i \in 1..Len(characters) :
        /\ characters[i].location = side
        /\ characters[i].id \notin SeqToSet(boat_crew)}

\* get_characters_on_boat (positions in the character list)
get_characters_on_boat ==
    {i \in 1..Len(characters) : characters[i].id \in SeqToSet(boat_crew)}

\* the side-count update with the character's type not looked at
SideCount_any_type(n, side, type, at_side, char_type, delta) ==
    IF at_side = side THEN n + delta ELSE n

\* the "update side counts" branches of add_to_boat, remove_from_boat and
\* travel: the count n of `type` on `side` after a character of type
\* char_type joined (delta 1) or left (delta -1) the bank at_side
SideCount(n, side, type, at_side, char_type, delta) ==
    IF at_side = side /\ char_type = type THEN n + delta ELSE n

\* can_add_to_boat refusing a boarding that leaves the bank unsafe
can_add_to_boat_safe_only(character_id) ==
    LET character == get_character(character_id) IN
    IF is_game_over THEN <<FALSE, "Game is over">>
    ELSE IF character = 0
    THEN <<FALSE, "Character " \o character_id \o " not found">>
    ELSE IF characters[character].location # boat_side
    THEN <<FALSE, "Character is on " \o characters[character].location
                  \o " side, boat is on " \o boat_side \o " side">>
    ELSE IF Len(boat_crew) >= boat_capacity
    THEN <<FALSE, "Boat is full (capacity: " \o ToString(boat_capacity) \o ")">>
    ELSE IF character_id \in SeqToSet(boat_crew)
    THEN <<FALSE, "Character is already on the boat">>
    ELSE IF ~is_safe_state(
                SideCount(missionaries_left, LEFT, MISSIONARY, boat_side,
                          characters[character].type, -1),
                SideCount(cannibals_left, LEFT, CANNIBAL, boat_side,
                          characters[character].type, -1),
                SideCount(missionaries_right, RIGHT, MISSIONARY, boat_side,
                          characters[character].type, -1),
                SideCount(cannibals_right, RIGHT, CANNIBAL, boat_side,
                          characters[character].type, -1))
    THEN <<FALSE, "Unsafe">>
    ELSE <<TRUE, "Can add to boat">>

\* can_add_to_boat without the game-over test
can_add_to_boat_no_terminal(character_id) ==
    LET character == get_character(character_id) IN
    IF character = 0
    THEN <<FALSE, "Character " \o character_id \o " not found">>
    ELSE IF characters[character].location # boat_side
    THEN <<FALSE, "Character is on " \o characters[character].location
                  \o " side, boat is on " \o boat_side \o " side">>
    ELSE IF Len(boat_crew) >= boat_capacity
    THEN <<FALSE, "Boat is full (capacity: " \o ToString(boat_capacity) \o ")">>
    ELSE IF character_id \in SeqToSet(boat_crew)
    THEN <<FALSE, "Character is already on the boat">>
    ELSE <<TRUE, "Can add to boat">>

\* can_add_to_boat, with the capacity test written > instead of >=
can_add_to_boat_off_by_one(character_id) ==
    LET character == get_character(character_id) IN
    IF is_game_over THEN <<FALSE, "Game is over">>
    ELSE IF character = 0
    THEN <<FALSE, "Character " \o character_id \o " not found">>
    ELSE IF characters[character].location # boat_side
    THEN <<FALSE, "Character is on " \o characters[character].location
                  \o " side, boat is on " \o boat_side \o " side">>
    ELSE IF Len(boat_crew) > boat_capacity
    THEN <<FALSE, "Boat is full (capacity: " \o ToString(boat_capacity) \o ")">>
    ELSE IF character_id \in SeqToSet(boat_crew)
    THEN <<FALSE, "Character is already on the boat">>
    ELSE <<TRUE, "Can add to boat">>

\* can_add_to_boat without the test for a character already aboard
can_add_to_boat_no_aboard_test(character_id) ==
    LET character == get_character(character_id) IN
    IF is_game_over THEN <<FALSE, "Game is over">>
    ELSE IF character = 0
    THEN <<FALSE, "Character " \o character_id \o " not found">>
    ELSE IF characters[character].location # boat_side
    THEN <<FALSE, "Character is on " \o characters[character].location
                  \o " side, boat is on " \o boat_side \o " side">>
    ELSE IF Len(boat_crew) >= boat_capacity
    THEN <<FALSE, "Boat is full (capacity: " \o ToString(boat_capacity) \o ")">>
    ELSE <<TRUE, "Can add to boat">>

\* can_add_to_boat with the capacity of the classical boat, two, whatever
\* the game's boat_capacity
can_add_to_boat_boat_of_two(character_id) ==
    LET character == get_character(character_id) IN
    IF is_game_over THEN <<FALSE, "Game is over">>
    ELSE IF character = 0
    THEN <<FALSE, "Character " \o character_id \o " not found">>
    ELSE IF characters[character].location # boat_side
    THEN <<FALSE, "Character is on " \o characters[character].location
                  \o " side, boat is on " \o boat_side \o " side">>
    ELSE IF Len(boat_crew) >= 2
    THEN <<FALSE, "Boat is full (capacity: " \o ToString(boat_capacity) \o ")">>
    ELSE IF character_id \in SeqToSet(boat_crew)
    THEN <<FALSE, "Character is already on the boat">>
    ELSE <<TRUE, "Can add to boat">>

\* can_add_to_boat
can_add_to_boat(character_id) ==
    LET character == get_character(character_id) IN
    IF is_game_over THEN <<FALSE, "Game is over">>
    ELSE IF character = 0
    THEN <<FALSE, "Character " \o character_id \o " not found">>
    ELSE IF characters[character].location # boat_side
    THEN <<FALSE, "Character is on " \o characters[character].location
                  \o " side, boat is on " \o boat_side \o " side">>
    ELSE IF Len(boat_crew) >= boat_capacity
    THEN <<FALSE, "Boat is full (capacity: " \o ToString(boat_capacity) \o ")">>
    ELSE IF character_id \in SeqToSet(boat_crew)
    THEN <<FALSE, "Character is already on the boat">>
    ELSE <<TRUE, "Can add to boat">>

\* can_remove_from_boat
can_remove_from_boat(character_id) ==
    IF is_game_over THEN <<FALSE, "Game is over">>
    ELSE IF character_id \notin SeqToSet(boat_crew)
    THEN <<FALSE, "Character is not on the boat">>
    ELSE <<TRUE, "Can remove from boat">>

\* can_travel
can_travel ==
    IF is_game_over THEN <<FALSE, "Game is over">>
    ELSE IF Len(boat_crew) = 0
    THEN <<FALSE, "Boat must have at least one passenger">>
    ELSE IF Len(boat_crew) > boat_capacity
    THEN <<FALSE, "Too many passengers (capacity: "
                  \o ToString(boat_capacity) \o ")">>
    ELSE <<TRUE, "Can travel">>

\* list.remove: drops the first occurrence
RECURSIVE ListRemove(_, _)
ListRemove(s, x) ==
    IF s = <<>> THEN <<>>
    ELSE IF Head(s) = x THEN Tail(s)
    ELSE <<Head(s)>> \o ListRemove(Tail(s), x)

\* initialize_game followed by the win test, which finds the left bank of an
\* empty population empty
initialize_game_checks_status(missionaries, cannibals, capacity) ==
    /\ missionaries_left' = missionaries
    /\ cannibals_left' = cannibals
    /\ missionaries_right' = 0
    /\ cannibals_right' = 0
    /\ boat_side' = LEFT
    /\ boat_crew' = <<>>
    /\ boat_capacity' = capacity
    /\ total_missionaries' = missionaries
    /\ total_cannibals' = cannibals
    /\ move_count' = 0
    /\ is_game_over' = (missionaries = 0 /\ cannibals = 0)
    /\ is_won' = (missionaries = 0 /\ cannibals = 0)
    /\ characters' = InitialCharacters(missionaries, cannibals)
    /\ move_history' = <<>>

\* initialize_game
initialize_game(missionaries, cannibals, capacity) ==
    /\ missionaries_left' = missionaries
    /\ cannibals_left' = cannibals
    /\ missionaries_right' = 0
    /\ cannibals_right' = 0
    /\ boat_side' = LEFT
    /\ boat_crew' = <<>>
    /\ boat_capacity' = capacity
    /\ total_missionaries' = missionaries
    /\ total_cannibals' = cannibals
    /\ move_count' = 0
    /\ is_game_over' = FALSE
    /\ is_won' = FALSE
    /\ characters' = InitialCharacters(missionaries, cannibals)
    /\ move_history' = <<>>

\* add_to_boat: the returned (success, message)
add_to_boat_returns(character_id) ==
    LET can == can_add_to_boat(character_id) IN
    IF ~can[1] THEN <<FALSE, can[2]>>
    ELSE <<TRUE, "Added " \o character_id \o " to boat">>

\* add_to_boat, past the check, taking the character from the left bank's
\* counts wherever the boat is
add_to_boat_effect_left_bank(character_id) ==
    LET character == get_character(character_id)
        type == characters[character].type
    IN       /\ boat_crew' = Append(boat_crew, character_id)
             /\ characters' = [characters EXCEPT ![character].location = boat_side]
             /\ missionaries_left' =
                   SideCount(missionaries_left, LEFT, MISSIONARY, LEFT, type, -1)
             /\ cannibals_left' =
                   SideCount(cannibals_left, LEFT, CANNIBAL, LEFT, type, -1)
             /\ UNCHANGED <<missionaries_right, cannibals_right>>
             /\ UNCHANGED <<boat_side, totals, move_count, flags, move_history>>

\* add_to_boat, past the check: the crew, the location and the side counts
add_to_boat_effect(character_id) ==
    LET character == get_character(character_id)
        type == characters[character].type
    IN       /\ boat_crew' = Append(boat_crew, character_id)
             /\ characters' = [characters EXCEPT ![character].location = boat_side]
             /\ missionaries_left' =
                   SideCount(missionaries_left, LEFT, MISSIONARY, boat_side, type, -1)
             /\ cannibals_left' =
                   SideCount(cannibals_left, LEFT, CANNIBAL, boat_side, type, -1)
             /\ missionaries_right' =
                   SideCount(missionaries_right, RIGHT, MISSIONARY, boat_side, type, -1)
             /\ cannibals_right' =
                   SideCount(cannibals_right, RIGHT, CANNIBAL, boat_side, type, -1)
             /\ UNCHANGED <<boat_side, totals, move_count, flags, move_history>>

\* add_to_boat with the crew appended before the check
add_to_boat_append_first(character_id) ==
    IF ~can_add_to_boat(character_id)[1]
    THEN /\ boat_crew' = Append(boat_crew, character_id)
         /\ UNCHANGED <<counts, boat_side, totals, move_count, flags,
                        characters, move_history>>
    ELSE add_to_boat_effect(character_id)

\* add_to_boat: the effect on the engine
add_to_boat(character_id) ==
    IF ~can_add_to_boat(character_id)[1]
    THEN UNCHANGED vars
    ELSE add_to_boat_effect(character_id)

\* remove_from_boat: the returned (success, message)
remove_from_boat_returns(character_id) ==
    LET can == can_remove_from_boat(character_id) IN
    IF ~can[1] THEN <<FALSE, can[2]>>
    ELSE <<TRUE, "Removed " \o character_id \o " from boat">>

\* remove_from_boat, past the check, counting the character on the bank
\* across the river
remove_from_boat_effect_far_bank(character_id) ==
    LET character == get_character(character_id)
        type == characters[character].type
    IN       /\ boat_crew' = ListRemove(boat_crew, character_id)
             /\ characters' = [characters EXCEPT ![character].location = boat_side]
             /\ missionaries_left' =
                   SideCount(missionaries_left, RIGHT, MISSIONARY, boat_side, type, 1)
             /\ cannibals_left' =
                   SideCount(cannibals_left, RIGHT, CANNIBAL, boat_side, type, 1)
             /\ missionaries_right' =
                   SideCount(missionaries_right, LEFT, MISSIONARY, boat_side, type, 1)
             /\ cannibals_right' =
                   SideCount(cannibals_right, LEFT, CANNIBAL, boat_side, type, 1)
             /\ UNCHANGED <<boat_side, totals, move_count, flags, move_history>>

\* remove_from_boat, past the check, putting the character on the left bank
\* wherever the boat is
remove_from_boat_effect_to_left_bank(character_id) ==
    LET character == get_character(character_id)
        type == characters[character].type
    IN       /\ boat_crew' = ListRemove(boat_crew, character_id)
             /\ characters' = [characters EXCEPT ![character].location = LEFT]
             /\ missionaries_left' =
                   SideCount(missionaries_left, LEFT, MISSIONARY, boat_side, type, 1)
             /\ cannibals_left' =
                   SideCount(cannibals_left, LEFT, CANNIBAL, boat_side, type, 1)
             /\ missionaries_right' =
                   SideCount(missionaries_right, RIGHT, MISSIONARY, boat_side, type, 1)
             /\ cannibals_right' =
                   SideCount(cannibals_right, RIGHT, CANNIBAL, boat_side, type, 1)
             /\ UNCHANGED <<boat_side, totals, move_count, flags, move_history>>

\* remove_from_boat, past the check
remove_from_boat_effect(character_id) ==
    LET character == get_character(character_id)
        type == characters[character].type
    IN       /\ boat_crew' = ListRemove(boat_crew, character_id)
             /\ characters' = [characters EXCEPT ![character].location = boat_side]
             /\ missionaries_left' =
                   SideCount(missionaries_left, LEFT, MISSIONARY, boat_side, type, 1)
             /\ cannibals_left' =
                   SideCount(cannibals_left, LEFT, CANNIBAL, boat_side, type, 1)
             /\ missionaries_right' =
                   SideCount(missionaries_right, RIGHT, MISSIONARY, boat_side, type, 1)
             /\ cannibals_right' =
                   SideCount(cannibals_right, RIGHT, CANNIBAL, boat_side, type, 1)
             /\ UNCHANGED <<boat_side, totals, move_count, flags, move_history>>

\* remove_from_boat: the effect on the engine
remove_from_boat(character_id) ==
    IF ~can_remove_from_boat(character_id)[1]
    THEN UNCHANGED vars
    ELSE remove_from_boat_effect(character_id)

\* travel: new_side
NewSide(side) == IF side = LEFT THEN RIGHT ELSE LEFT

\* the loop of travel leaving after the first passenger
LandCrew_first_only(n, side, type, new_side, crew) ==
    IF crew = <<>> THEN n
    ELSE SideCount(n, side, type, new_side,
                   characters[get_character(Head(crew))].type, 1)

\* travel: the loop over the crew, for the count n of `type` on `side`
RECURSIVE LandCrew(_, _, _, _, _)
LandCrew(n, side, type, new_side, crew) ==
    IF crew = <<>> THEN n
    ELSE LandCrew(SideCount(n, side, type, new_side,
                            characters[get_character(Head(crew))].type, 1),
                  side, type, new_side, Tail(crew))

\* travel with the passengers' locations left as they were
LandCharacters_stay(new_side, crew) ==
    characters

\* travel: the loop over the crew, for the character locations
LandCharacters(new_side, crew) ==
    [i \in 1..Len(characters) |->
        IF \E j \in 1..Len(crew) : get_character(crew[j]) = i
        THEN [characters[i] EXCEPT !.location = new_side]
        ELSE characters[i]]

\* _get_state_snapshot, of the given field values
StateSnapshot(m_left, c_left, m_right, c_right, side, crew) ==
    [missionaries_left |-> m_left,
     cannibals_left |-> c_left,
     missionaries_right |-> m_right,
     cannibals_right |-> c_right,
     boat_side |-> side,
     boat_crew_count |-> Len(crew),
     is_safe |-> is_safe_state(m_left, c_left, m_right, c_right)]

\* _check_game_status with the win test reading the missionaries only
check_game_status_win_m_only(m_left, c_left, m_right, c_right, crew, over, won) ==
    IF ~is_safe_state(m_left, c_left, m_right, c_right) THEN <<TRUE, FALSE>>
    ELSE IF m_left = 0 /\ Len(crew) = 0 THEN <<TRUE, TRUE>>
    ELSE <<over, won>>

\* _check_game_status with the loss test dropped
check_game_status_no_loss(m_left, c_left, m_right, c_right, crew, over, won) ==
    IF m_left = 0 /\ c_left = 0 /\ Len(crew) = 0 THEN <<TRUE, TRUE>>
    ELSE <<over, won>>

\* _check_game_status: <<is_game_over, is_won>> after the check, given the
\* fields it reads and the flags before it
check_game_status(m_left, c_left, m_right, c_right, crew, over, won) ==
    IF ~is_safe_state(m_left, c_left, m_right, c_right) THEN <<TRUE, FALSE>>
    ELSE IF m_left = 0 /\ c_left = 0 /\ Len(crew) = 0 THEN <<TRUE, TRUE>>
    ELSE <<over, won>>

\* travel: the returned (success, message)
travel_returns ==
    LET can == can_travel IN
    IF ~can[1] THEN <<FALSE, can[2]>>
    ELSE <<TRUE, "Traveled to " \o NewSide(boat_side) \o " side">>

\* travel, past the check
travel_effect ==
         LET new_side == NewSide(boat_side)
             m_left == LandCrew(missionaries_left, LEFT, MISSIONARY, new_side, boat_crew)
             c_left == LandCrew(cannibals_left, LEFT, CANNIBAL, new_side, boat_crew)
             m_right == LandCrew(missionaries_right, RIGHT, MISSIONARY, new_side, boat_crew)
             c_right == LandCrew(cannibals_right, RIGHT, CANNIBAL, new_side, boat_crew)
             move_data ==
                 [move_number |-> move_count + 1,
                  from_side |-> boat_side,
                  passengers |-> boat_crew,
                  state_before |->
                      StateSnapshot(missionaries_left, cannibals_left,
                                    missionaries_right, cannibals_right,
                                    boat_side, boat_crew),
                  to_side |-> new_side,
                  state_after |->
                      StateSnapshot(m_left, c_left, m_right, c_right, new_side, <<>>)]
             status == check_game_status(m_left, c_left, m_right, c_right, <<>>,
                                         is_game_over, is_won)
         IN  /\ boat_side' = new_side
             /\ characters' = LandCharacters(new_side, boat_crew)
             /\ missionaries_left' = m_left
             /\ cannibals_left' = c_left
             /\ missionaries_right' = m_right
             /\ cannibals_right' = c_right
             /\ boat_crew' = <<>>
             /\ move_count' = move_count + 1
             /\ move_history' = Append(move_history, move_data)
             /\ is_game_over' = status[1]
             /\ is_won' = status[2]
             /\ UNCHANGED totals

\* travel: the effect on the engine
travel ==
    IF ~can_travel[1]
    THEN UNCHANGED vars
    ELSE travel_effect

\* restart_game with the two populations passed in the wrong order
restart_game_swapped ==
    initialize_game(total_cannibals, total_missionaries, boat_capacity)

\* restart_game
restart_game ==
    initialize_game(total_missionaries, total_cannibals, boat_capacity)

(***************************************************************************)
(* Level data (part1_game_data.py) and the objects around the engine       *)
(***************************************************************************)

\* LEVELS[0]: final_m, final_c, final_k
Level1_final_m == 3
Level1_final_c == 3
Level1_final_k == 2

\* A word is the sequence of its letters; a letter-to-digit dict is a
\* function from letters to digits.
\* LEVELS: words, unique_letters, solution and river parameters of each level
LEVELS ==
    << [words |-> << <<"S","E","N","D">>, <<"M","O","R","E">>,
                     <<"M","O","N","E","Y">> >>,
        unique_letters |-> <<"S","E","N","D","M","O","R","Y">>,
        solution |-> [l \in {"S","E","N","D","M","O","R","Y"} |->
                        CASE l = "S" -> 9 [] l = "E" -> 5 [] l = "N" -> 6
                          [] l = "D" -> 7 [] l = "M" -> 1 [] l = "O" -> 0
                          [] l = "R" -> 8 [] l = "Y" -> 2],
        final_m |-> Level1_final_m, final_c |-> Level1_final_c,
        final_k |-> Level1_final_k],
       [words |-> << <<"T","W","O">>, <<"T","W","O">>, <<"F","O","U","R">> >>,
        unique_letters |-> <<"T","W","O","F","U","R">>,
        solution |-> [l \in {"T","W","O","F","U","R"} |->
                        CASE l = "T" -> 7 [] l = "W" -> 3 [] l = "O" -> 4
                          [] l = "F" -> 1 [] l = "U" -> 6 [] l = "R" -> 8],
        final_m |-> 4, final_c |-> 4, final_k |-> 3],
       [words |-> << <<"T","H","I","S">>, <<"I","S">>, <<"G","O","O","D">> >>,
        unique_letters |-> <<"T","H","I","S","G","O","D">>,
        solution |-> [l \in {"T","H","I","S","G","O","D"} |->
                        CASE l = "T" -> 1 [] l = "H" -> 9 [] l = "I" -> 5
                          [] l = "S" -> 3 [] l = "G" -> 2 [] l = "O" -> 0
                          [] l = "D" -> 6],
        final_m |-> 5, final_c |-> 5, final_k |-> 3] >>

\* get_level_count
get_level_count == Len(LEVELS)

\* CryptarithmeticSolver.__init__: no puzzle, empty cache
SolverInit ==
    /\ current_puzzle = <<>>
    /\ solution_cache = <<>>

\* no _backtrack_solve call is under way
SearchInit ==
    /\ search_assignment = <<>>
    /\ search_remaining = <<>>
    /\ search_used_digits = {}

\* load_level(index) of cryptic_crossings.py on the state dict: the river is
\* emptied of its parameters and characters and locked, and
\* render_cryptarithmetic empties the guess; the bank counts, the boat side
\* and the crew are left as they are
single_load_level(state) ==
    [state EXCEPT !.total_m = 0, !.total_c = 0, !.boat_capacity = 0,
                  !.is_unlocked = FALSE, !.characters = <<>>,
                  !.current_guess = <<>>]

\* the index load_level(index) of cryptic_crossings.py makes current
single_level_index(index) == IF index >= Len(LEVELS) THEN 0 ELSE index

\* cryptic_crossings.py CrypticCrossingsGame.__init__ on a save file holding
\* saved: the state dict as constructed, then
\* load_level(min(highest_level_completed, len(LEVELS) - 1))
SingleFileInit(saved) ==
    /\ save_file = saved
    /\ after_checks = 0
    /\ game = [current_level_index |->
                   single_level_index(IF saved < Len(LEVELS) - 1 THEN saved
                                      ELSE Len(LEVELS) - 1),
               highest_level_completed |-> saved,
               state |-> single_load_level(
                   [M_L |-> 0, C_L |-> 0, M_R |-> 0, C_R |-> 0,
                    boat_side |-> "left",
                    total_m |-> 0, total_c |-> 0, boat_capacity |-> 0,
                    boat_crew |-> <<>>,
                    is_unlocked |-> FALSE,
                    current_guess |-> <<>>,
                    characters |-> <<>>])]

\* CrypticCrossingsGame.__init__ with load_progress() returning saved: the
\* level min(saved, get_level_count() - 1) is loaded (level indices count
\* from 0), the guess is empty, the river challenge is locked and no status
\* check is queued
ControllerInit(saved) ==
    /\ saved_progress = saved
    /\ highest_level_completed = saved
    /\ current_level = IF saved < get_level_count - 1 THEN saved
                       ELSE get_level_count - 1
    /\ level_data = LEVELS[current_level + 1]
    /\ current_guess = <<>>
    /\ is_unlocked = FALSE
    /\ pending_checks = 0

\* MissionariesCannibalsGame.__init__: GameState() defaults, no characters
EngineInit ==
    /\ missionaries_left = 0
    /\ cannibals_left = 0
    /\ missionaries_right = 0
    /\ cannibals_right = 0
    /\ boat_side = LEFT
    /\ boat_crew = <<>>
    /\ boat_capacity = 2
    /\ total_missionaries = 0
    /\ total_cannibals = 0
    /\ move_count = 0
    /\ is_game_over = FALSE
    /\ is_won = FALSE
    /\ characters = <<>>
    /\ move_history = <<>>

\* the engine and the solver as constructed, the controller started on an
\* empty save
Init ==
    /\ EngineInit
    /\ SolverInit
    /\ SearchInit
    /\ SingleFileInit(0)
    /\ ControllerInit(0)

\* initialize_river_challenge, as its caller (RiverCrossingUI.unlock_challenge)
\* uses it: a game with new parameters starts on the engine as constructed or
\* after the previous game has ended; at any other point the parameters are
\* those already in force, which is RestartGame
InitializeGame ==
    /\ characters = <<>> \/ is_game_over
    /\ \E m \in 0..MaxM, c \in 0..MaxC, k \in 1..MaxK : initialize_game(m, c, k)
    /\ UNCHANGED session

AddToBoat == (\E id \in Ids : add_to_boat(id)) /\ UNCHANGED session

RemoveFromBoat == (\E id \in Ids : remove_from_boat(id)) /\ UNCHANGED session

\* a game is explored for MaxMoves crossings
Travel ==
    /\ can_travel[1] => move_count < MaxMoves
    /\ travel
    /\ UNCHANGED session

RestartGame == restart_game /\ UNCHANGED session

Next ==
    \/ InitializeGame
    \/ AddToBoat
    \/ RemoveFromBoat
    \/ Travel
    \/ RestartGame

Spec == Init /\ [][Next]_vars

(***************************************************************************)
(* Properties of the engine                                                *)
(***************************************************************************)

\* the characters of a type among a set of positions of the character list
OfType(positions, type) ==
    Cardinality({i \in positions : characters[i].type = type})

Lost == is_game_over /\ ~is_won
Won == is_game_over /\ is_won
Active == ~is_game_over

\* a successful call of travel, add_to_boat(id), remove_from_boat(id)
TravelOk == can_travel[1] /\ travel
AddOk(id) == can_add_to_boat(id)[1] /\ add_to_boat(id)
RemoveOk(id) == can_remove_from_boat(id)[1] /\ remove_from_boat(id)

WonIffLeftEmpty ==
    [][(TravelOk /\ is_current_state_safe') =>
        LET empty == /\ missionaries_left' = 0
                     /\ cannibals_left' = 0
                     /\ boat_crew' = <<>>
        IN  /\ (is_game_over' /\ is_won') <=> empty
            /\ ~empty => ~is_game_over'
      ]_vars

\* Won by a first crossing that took everybody over
WonIffLeftEmptyWitness ==
    /\ Won
    /\ move_count = 1
    /\ missionaries_right >= 1
    /\ cannibals_right >= 1
    /\ missionaries_left = 0
    /\ cannibals_left = 0

\* C4: once is_game_over is set, add_to_boat, remove_from_boat and travel
\* return failure and change nothing; the flag is cleared only by
\* restart_game or initialize_game.
Terminal ==
    /\ [](is_game_over =>
            /\ \A id \in Ids : /\ ~add_to_boat_returns(id)[1]
                               /\ ~remove_from_boat_returns(id)[1]
            /\ ~travel_returns[1])
    /\ [][is_game_over =>
            /\ (\/ \E id \in Ids : add_to_boat(id) \/ remove_from_boat(id)
                \/ travel) => UNCHANGED vars
            /\ ~is_game_over' =>
                  \/ restart_game
                  \/ \E m \in 0..MaxM, c \in 0..MaxC, k \in 1..MaxK :
                        initialize_game(m, c, k)
         ]_vars

\* a Lost engine with a character waiting on the boat's bank
TerminalWitness ==
    /\ Lost
    /\ boat_capacity >= 1
    /\ get_characters_on_side(boat_side) # {}

\* C5: a call of add_to_boat, remove_from_boat or travel that returns
\* failure leaves every field, every character and the history as they were:
\* no step that changes anything is a failed call.
FailureIsNoOp ==
    [][\/ UNCHANGED vars
       \/ /\ \A id \in Ids :
                /\ ~(~add_to_boat_returns(id)[1] /\ add_to_boat(id))
                /\ ~(~remove_from_boat_returns(id)[1] /\ remove_from_boat(id))
          /\ ~(~travel_returns[1] /\ travel)
      ]_vars

\* an Active engine after a crossing, where add_to_boat fails for an unknown
\* id and for a character left on the opposite bank, remove_from_boat fails
\* for a character that is not aboard and travel fails for the empty boat
FailureIsNoOpWitness ==
    /\ Active
    /\ move_count = 1
    /\ boat_crew = <<>>
    /\ \E id \in Ids : add_to_boat_returns(id) =
            <<FALSE, "Character is on left side, boat is on right side">>
    /\ \E id \in Ids : add_to_boat_returns(id) =
            <<FALSE, "Character " \o id \o " not found">>
    /\ \E id \in Ids : remove_from_boat_returns(id) =
            <<FALSE, "Character is not on the boat">>
    /\ travel_returns = <<FALSE, "Boat must have at least one passenger">>

\* C6: the crew never outgrows boat_capacity, travel never reports too many
\* passengers, and with the boat full add_to_boat of a character waiting on
\* the boat's bank fails with the capacity message and leaves the crew alone
\* (no step that changes a full crew is an add_to_boat).
CrewWithinCapacity ==
    /\ [](/\ Len(boat_crew) <= boat_capacity
          /\ travel_returns[1] \/ travel_returns[2] \in
                {"Game is over", "Boat must have at least one passenger"}
          /\ (Active /\ Len(boat_crew) = boat_capacity) =>
                \A id \in Ids :
                    get_character(id) \in get_characters_on_side(boat_side) =>
                        add_to_boat_returns(id) =
                            <<FALSE, "Boat is full (capacity: "
                                     \o ToString(boat_capacity) \o ")">>)
    /\ [][(Len(boat_crew) = boat_capacity /\ boat_crew' # boat_crew) =>
            ~\E id \in Ids : add_to_boat(id)]_vars

\* capacity 2, two characters aboard and a third waiting on the boat's bank
CrewWithinCapacityWitness ==
    /\ Active
    /\ boat_capacity = 2
    /\ Len(boat_crew) = 2
    /\ get_characters_on_side(boat_side) # {}

RestartResets ==
    [][restart_game =>
        /\ missionaries_left' = total_missionaries
        /\ cannibals_left' = total_cannibals
        /\ missionaries_right' = 0
        /\ cannibals_right' = 0
        /\ boat_side' = LEFT
        /\ boat_crew' = <<>>
        /\ move_count' = 0
        /\ ~is_game_over'
        /\ ~is_won'
        /\ move_history' = <<>>
        /\ UNCHANGED totals
        /\ Len(characters') = total_missionaries + total_cannibals
        /\ \A i \in 1..Len(characters') : characters'[i].location = LEFT
        /\ Cardinality({i \in 1..Len(characters') :
                            characters'[i].type = MISSIONARY}) = total_missionaries
        /\ Cardinality({characters'[i].id : i \in 1..Len(characters')})
                = Len(characters')
      ]_vars

\* an Active engine after a crossing, with a character aboard and fewer
\* missionaries than cannibals in the game: a state restart_game is called in
RestartResetsWitness ==
    /\ Active
    /\ move_count = 1
    /\ Len(boat_crew) >= 1
    /\ total_missionaries < total_cannibals

\* C9: add_to_boat and remove_from_boat succeed whenever their preconditions
\* other than bank safety hold and never touch the flags (no step that
\* changes a flag is one of theirs); travel succeeds
\* whenever the engine is Active with somebody aboard, and an unsafe result
\* makes the engine Lost.
SafetyOnlyAtTravel ==
    /\ [](/\ \A id \in Ids :
                /\ add_to_boat_returns(id)[1] <=>
                      /\ ~is_game_over
                      /\ get_character(id) # 0
                      /\ get_character(id) \in get_characters_on_side(boat_side)
                      /\ Len(boat_crew) < boat_capacity
                /\ remove_from_boat_returns(id)[1] <=>
                      (~is_game_over /\ id \in SeqToSet(boat_crew))
          /\ travel_returns[1] <=> (~is_game_over /\ boat_crew # <<>>))
    /\ [][/\ flags' # flags =>
                ~\E id \in Ids : add_to_boat(id) \/ remove_from_boat(id)
          /\ (TravelOk /\ ~is_current_state_safe') => (is_game_over' /\ ~is_won')
         ]_vars

\* RiverState(2,3,2) with one missionary aboard: the left bank holds 1 M and
\* 3 C and the engine is Active
SafetyOnlyAtTravelWitness ==
    /\ total_missionaries = 2
    /\ total_cannibals = 3
    /\ boat_capacity = 2
    /\ Len(boat_crew) = 1
    /\ missionaries_left = 1
    /\ cannibals_left = 3
    /\ ~is_current_state_safe
    /\ Active

(***************************************************************************)
(* The classical solution played on level 1's river challenge              *)
(***************************************************************************)

\* the crews of the classical 11 crossings, by type
ClassicPlan ==
    << <<CANNIBAL, CANNIBAL>>, <<CANNIBAL>>, <<CANNIBAL, CANNIBAL>>, <<CANNIBAL>>,
       <<MISSIONARY, MISSIONARY>>, <<MISSIONARY, CANNIBAL>>,
       <<MISSIONARY, MISSIONARY>>, <<CANNIBAL>>, <<CANNIBAL, CANNIBAL>>,
       <<CANNIBAL>>, <<CANNIBAL, CANNIBAL>> >>

\* the crew planned for the crossing after move_count crossings
PlannedCrew ==
    IF move_count < Len(ClassicPlan) THEN ClassicPlan[move_count + 1] ELSE <<>>

\* the characters the plan lets board next: of the planned type, waiting on
\* the boat's bank
PlannedBoarders ==
    IF Len(boat_crew) < Len(PlannedCrew)
    THEN {i \in get_characters_on_side(boat_side) :
            characters[i].type = PlannedCrew[Len(boat_crew) + 1]}
    ELSE {}

\* initialize_river_challenge(3, 3, 2) on the engine as constructed
InitClassic ==
    /\ SolverInit
    /\ SearchInit
    /\ SingleFileInit(0)
    /\ ControllerInit(0)
    /\ missionaries_left = Level1_final_m
    /\ cannibals_left = Level1_final_c
    /\ missionaries_right = 0
    /\ cannibals_right = 0
    /\ boat_side = LEFT
    /\ boat_crew = <<>>
    /\ boat_capacity = Level1_final_k
    /\ total_missionaries = Level1_final_m
    /\ total_cannibals = Level1_final_c
    /\ move_count = 0
    /\ is_game_over = FALSE
    /\ is_won = FALSE
    /\ characters = InitialCharacters(Level1_final_m, Level1_final_c)
    /\ move_history = <<>>

\* the player boards any character of the planned type
ClassicBoard ==
    /\ Len(boat_crew) < Len(PlannedCrew)
    /\ \E i \in PlannedBoarders : add_to_boat(characters[i].id)
    /\ UNCHANGED session

\* the player crosses once the planned crew is aboard
ClassicTravel ==
    /\ PlannedCrew # <<>>
    /\ Len(boat_crew) = Len(PlannedCrew)
    /\ travel
    /\ UNCHANGED session

NextClassic ==
    \/ ClassicBoard
    \/ ClassicTravel

SpecClassic == InitClassic /\ [][NextClassic]_vars

\* C10: along the classical solution every planned boarding is possible and
\* succeeds, every planned travel succeeds, the engine is Active up to and
\* after the 10th crossing, and the 11th leaves it Won with nobody on the
\* left bank, an empty crew and move_count = 11.
ClassicalSolutionWins ==
    /\ move_count <= Len(ClassicPlan)
    /\ Len(move_history) = move_count
    /\ move_count < Len(ClassicPlan) =>
        /\ Active
        /\ Len(boat_crew) <= Len(PlannedCrew)
        /\ Len(boat_crew) < Len(PlannedCrew) =>
            /\ PlannedBoarders # {}
            /\ \A i \in PlannedBoarders : add_to_boat_returns(characters[i].id)[1]
        /\ Len(boat_crew) = Len(PlannedCrew) => travel_returns[1]
    /\ move_count = Len(ClassicPlan) =>
        /\ Won
        /\ move_count = 11
        /\ missionaries_left = 0
        /\ cannibals_left = 0
        /\ boat_crew = <<>>
        /\ \A i \in 1..move_count :
              /\ Len(move_history[i].passengers) = Len(ClassicPlan[i])
              /\ \A j \in 1..Len(ClassicPlan[i]) :
                    characters[get_character(move_history[i].passengers[j])].type
                        = ClassicPlan[i][j]

\* the engine after the 11th crossing of the plan
ClassicalSolutionWinsWitness ==
    /\ move_count = 11
    /\ Len(move_history) = 11
    /\ is_game_over
    /\ is_won
    /\ missionaries_right = 3
    /\ cannibals_right = 3

(***************************************************************************)
(* The safety check of the single-file game (cryptic_crossings.py) against *)
(* the engine's                                                            *)
(***************************************************************************)

is_safe_outnumbered_only(m, c) == c <= m

\* cryptic_crossings.py is_safe(m, c): one bank
is_safe(m, c) == IF m = 0 THEN TRUE ELSE c <= m

\* GameState holding any bank counts up to the bounds, nobody aboard
InitSafety ==
    /\ missionaries_left \in 0..MaxM
    /\ cannibals_left \in 0..MaxC
    /\ missionaries_right \in 0..MaxM
    /\ cannibals_right \in 0..MaxC
    /\ boat_side = LEFT
    /\ boat_crew = <<>>
    /\ boat_capacity = 2
    /\ total_missionaries = 0
    /\ total_cannibals = 0
    /\ move_count = 0
    /\ is_game_over = FALSE
    /\ is_won = FALSE
    /\ characters = <<>>
    /\ move_history = <<>>
    /\ SolverInit
    /\ SearchInit
    /\ SingleFileInit(0)
    /\ ControllerInit(0)

\* _check_game_status applied to the counts held
CheckGameStatus ==
    /\ LET status == check_game_status(missionaries_left, cannibals_left,
                                       missionaries_right, cannibals_right,
                                       boat_crew, is_game_over, is_won)
       IN  is_game_over' = status[1] /\ is_won' = status[2]
    /\ UNCHANGED <<counts, boat_side, boat_crew, totals, move_count,
                   characters, move_history, session>>

NextSafety == CheckGameStatus

SpecSafety == InitSafety /\ [][NextSafety]_allvars

\* C11: a bank is unsafe exactly when it holds a missionary and more
\* cannibals than missionaries, and the engine's four-count check
\* is_safe_state equals the single-file is_safe applied to the left bank and
\* to the right bank.
SafetyCheckerAgrees ==
    /\ \A bank \in {<<missionaries_left, cannibals_left>>,
                     <<missionaries_right, cannibals_right>>} :
          ~is_safe(bank[1], bank[2]) <=> (bank[1] > 0 /\ bank[2] > bank[1])
    /\ is_safe_state(missionaries_left, cannibals_left,
                     missionaries_right, cannibals_right)
          <=> (is_safe(missionaries_left, cannibals_left)
               /\ is_safe(missionaries_right, cannibals_right))

\* the status check has found the right bank unsafe while the left bank,
\* with cannibals and no missionary, is safe
SafetyCheckerAgreesWitness ==
    /\ is_game_over /\ ~is_won
    /\ missionaries_left = 0 /\ cannibals_left > 0
    /\ missionaries_right > 0 /\ cannibals_right > missionaries_right
    /\ is_safe(missionaries_left, cannibals_left)
    /\ ~is_safe(missionaries_right, cannibals_right)

(***************************************************************************)
(* The assignment validator (part3_cryptarithmetic.py) and the validator   *)
(* of the single-file game (cryptic_crossings.py)                          *)
(***************************************************************************)

\* A validator result is <<is_valid, message>>; a message is modelled by its
\* fixed text, without the letters and numbers formatted into it.

\* the digits tried by the solver and typed into the UI: range(10)
Digits == 0..9

\* len(str(n)) for an int n >= 0
RECURSIVE StrLen(_)
StrLen(n) == IF n < 10 THEN 1 ELSE 1 + StrLen(n \div 10)

\* int(s + str(n)) from int(s), for an int n >= 0: the decimal digits of n
\* are appended to those read so far
RECURSIVE AppendStr(_, _, _)
AppendStr(number, n, len) ==
    IF len = 0 THEN number + n ELSE AppendStr(number * 10, n, len - 1)

\* _word_to_number from position i on, number being int(number_str) so far:
\* <<"int", value>>, or <<exception>>
RECURSIVE word_to_number_from(_, _, _, _)
word_to_number_from(word, guess_map, i, number) ==
    IF i > Len(word) THEN <<"int", number>>
    ELSE IF word[i] \notin DOMAIN guess_map THEN <<"KeyError">>
    ELSE word_to_number_from(word, guess_map, i + 1,
                             AppendStr(number, guess_map[word[i]],
                                       StrLen(guess_map[word[i]])))

word_to_number_first_digit(word, guess_map) ==
    IF word = <<>> THEN <<"ValueError">>
    ELSE IF word[1] \notin DOMAIN guess_map THEN <<"KeyError">>
    ELSE <<"int", guess_map[word[1]]>>

\* CryptarithmeticSolver._word_to_number
word_to_number(word, guess_map) ==
    IF word = <<>> THEN <<"ValueError">>
    ELSE word_to_number_from(word, guess_map, 1, 0)

\* CryptarithmeticSolver._verify_mathematics
verify_mathematics(words, guess_map) ==
    IF Len(words) # 3
    THEN <<FALSE, "Puzzle must have exactly 3 words (operand1, operand2, result)">>
    ELSE LET num1 == word_to_number(words[1], guess_map)
             num2 == word_to_number(words[2], guess_map)
             result == word_to_number(words[3], guess_map)
             raised == IF num1[1] # "int" THEN num1[1]
                       ELSE IF num2[1] # "int" THEN num2[1]
                       ELSE IF result[1] # "int" THEN result[1]
                       ELSE "none"
         IN  CASE raised = "KeyError" ->
                    <<FALSE, "Missing digit assignment for letter">>
               [] raised = "ValueError" ->
                    <<FALSE, "Invalid number conversion">>
               [] OTHER ->
                    IF num1[2] + num2[2] = result[2]
                    THEN <<TRUE, "Correct">>
                    ELSE <<FALSE, "Incorrect">>

\* the letters and the digits of a guess
Keys(guess_map) == DOMAIN guess_map

Values(guess_map) == {guess_map[l] : l \in DOMAIN guess_map}

LeadingZeroWord_any_letter(words, guess_map, i) ==
    IF \E l \in DOMAIN guess_map : guess_map[l] = 0 THEN 1 ELSE 0

\* the first word, in puzzle order, whose first letter is given 0; 0 if none
RECURSIVE LeadingZeroWord(_, _, _)
LeadingZeroWord(words, guess_map, i) ==
    IF i > Len(words) THEN 0
    ELSE IF /\ words[i] # <<>>
            /\ words[i][1] \in DOMAIN guess_map
            /\ guess_map[words[i][1]] = 0
         THEN i
         ELSE LeadingZeroWord(words, guess_map, i + 1)

validate_input_no_duplicate_rule(puzzle, guess_map) ==
    IF puzzle = <<>> THEN <<FALSE, "No puzzle loaded">>
    ELSE LET words == puzzle[1].words
             letters == puzzle[1].unique_letters
         IN  IF /\ Cardinality(Keys(guess_map)) # Len(letters)
                /\ SeqToSet(letters) \ Keys(guess_map) # {}
             THEN <<FALSE, "Missing assignments for">>
             ELSE IF /\ Cardinality(Keys(guess_map)) # Len(letters)
                     /\ Keys(guess_map) \ SeqToSet(letters) # {}
             THEN <<FALSE, "Extra assignments for">>
             ELSE IF LeadingZeroWord(words, guess_map, 1) # 0
             THEN <<FALSE, "Leading letter cannot be zero">>
             ELSE IF ~verify_mathematics(words, guess_map)[1]
             THEN <<FALSE, verify_mathematics(words, guess_map)[2]>>
             ELSE <<TRUE, "Solution is correct!">>

validate_input_arithmetic_first(puzzle, guess_map) ==
    IF puzzle = <<>> THEN <<FALSE, "No puzzle loaded">>
    ELSE LET words == puzzle[1].words
             letters == puzzle[1].unique_letters
         IN  IF /\ Cardinality(Keys(guess_map)) # Len(letters)
                /\ SeqToSet(letters) \ Keys(guess_map) # {}
             THEN <<FALSE, "Missing assignments for">>
             ELSE IF /\ Cardinality(Keys(guess_map)) # Len(letters)
                     /\ Keys(guess_map) \ SeqToSet(letters) # {}
             THEN <<FALSE, "Extra assignments for">>
             ELSE IF Cardinality(Values(guess_map)) # Cardinality(Keys(guess_map))
             THEN <<FALSE, "Duplicate digit assignments">>
             ELSE IF ~verify_mathematics(words, guess_map)[1]
             THEN <<FALSE, verify_mathematics(words, guess_map)[2]>>
             ELSE IF LeadingZeroWord(words, guess_map, 1) # 0
             THEN <<FALSE, "Leading letter cannot be zero">>
             ELSE <<TRUE, "Solution is correct!">>

\* CryptarithmeticSolver.validate_input on current_puzzle = puzzle
\* (<<>> is None).  The digits of a dict number as many as its keys unless
\* two keys share one.
validate_input(puzzle, guess_map) ==
    IF puzzle = <<>> THEN <<FALSE, "No puzzle loaded">>
    ELSE LET words == puzzle[1].words
             letters == puzzle[1].unique_letters
         IN  IF /\ Cardinality(Keys(guess_map)) # Len(letters)
                /\ SeqToSet(letters) \ Keys(guess_map) # {}
             THEN <<FALSE, "Missing assignments for">>
             ELSE IF /\ Cardinality(Keys(guess_map)) # Len(letters)
                     /\ Keys(guess_map) \ SeqToSet(letters) # {}
             THEN <<FALSE, "Extra assignments for">>
             ELSE IF Cardinality(Values(guess_map)) # Cardinality(Keys(guess_map))
             THEN <<FALSE, "Duplicate digit assignments">>
             ELSE IF LeadingZeroWord(words, guess_map, 1) # 0
             THEN <<FALSE, "Leading letter cannot be zero">>
             ELSE IF ~verify_mathematics(words, guess_map)[1]
             THEN <<FALSE, verify_mathematics(words, guess_map)[2]>>
             ELSE <<TRUE, "Solution is correct!">>

\* cryptic_crossings.py get_num: int(number_str), or the ValueError raised
\* for a letter without a key
RECURSIVE get_num_from(_, _, _, _)
get_num_from(word, guess_map, i, number) ==
    IF i > Len(word) THEN <<"int", number>>
    ELSE IF word[i] \notin DOMAIN guess_map THEN <<"ValueError">>
    ELSE get_num_from(word, guess_map, i + 1,
                      AppendStr(number, guess_map[word[i]],
                                StrLen(guess_map[word[i]])))

\* int("") raises ValueError too
get_num(word, guess_map) ==
    IF word = <<>> THEN <<"ValueError">>
    ELSE get_num_from(word, guess_map, 1, 0)

\* cryptic_crossings.py validate_cryptarithmetic
validate_cryptarithmetic_single_file(ld, guess) ==
    LET letters == ld.unique_letters
        words == ld.words
        num1 == get_num(words[1], guess)
        num2 == get_num(words[2], guess)
        result_num == get_num(words[3], guess)
    IN  IF Cardinality(Keys(guess)) # Len(letters)
        THEN <<FALSE, "Error: All letters must be assigned a digit.">>
        ELSE IF Cardinality(Values(guess)) # Cardinality(Keys(guess))
        THEN <<FALSE, "Error: Digits must be unique.">>
        ELSE IF LeadingZeroWord(words, guess, 1) # 0
        THEN <<FALSE, "Error: The leading letter cannot be zero.">>
        ELSE IF \/ num1[1] # "int" \/ num2[1] # "int" \/ result_num[1] # "int"
        THEN <<FALSE, "Input error">>
        ELSE IF num1[2] + num2[2] # result_num[2]
        THEN <<FALSE, "Arithmetic Error">>
        ELSE <<TRUE, "Success! The rules are deciphered.">>

\* CryptarithmeticSolver.set_puzzle: the puzzle is replaced and the cache
\* emptied
set_puzzle(words, unique_letters) ==
    /\ current_puzzle' = << [words |-> words, unique_letters |-> unique_letters] >>
    /\ solution_cache' = <<>>

\* what validate_cryptarithmetic(level_data, current_guess) of part3 returns:
\* validate_input on the puzzle just set
validate_cryptarithmetic_returns ==
    validate_input(<< [words |-> level_data.words,
                       unique_letters |-> level_data.unique_letters] >>,
                   current_guess)

\* part3 validate_cryptarithmetic(level_data, current_guess)
validate_cryptarithmetic ==
    /\ set_puzzle(level_data.words, level_data.unique_letters)
    /\ UNCHANGED <<vars, crypto_ui, controller, apart>>

(***************************************************************************)
(* Puzzles and guesses the validator and the solver are applied to         *)
(***************************************************************************)

\* the number of keys by which a guess differs from the empty guess or from
\* the level's stored solution
MaxEdits == 1

\* a list without its repeated elements, in order of first appearance
RECURSIVE FirstAppearance(_, _)
FirstAppearance(s, seen) ==
    IF s = <<>> THEN <<>>
    ELSE IF Head(s) \in seen THEN FirstAppearance(Tail(s), seen)
    ELSE <<Head(s)>> \o FirstAppearance(Tail(s), seen \cup {Head(s)})

\* short words over three letters
TestWords == { <<"A">>, <<"B">>, <<"A","B">>, <<"B","A">>, <<"B","C">> }

\* puzzles shaped as the levels are: three words, and their letters in order
\* of first appearance
TestPuzzles ==
    { [words |-> <<w1, w2, w3>>,
       unique_letters |-> FirstAppearance(w1 \o w2 \o w3, {})] :
      w1 \in TestWords, w2 \in TestWords, w3 \in TestWords }

Puzzles == {LEVELS[i] : i \in 1..Len(LEVELS)} \cup TestPuzzles

\* a key that is a letter of no puzzle
ExtraLetter == "Z"

\* a guess to start from: nothing entered, or the level's stored solution
Seeds(ld) ==
    {<<>>} \cup (IF "solution" \in DOMAIN ld THEN {ld.solution} ELSE {})

\* seed with the keys in del removed and the keys of put set as put says
Edited(seed, del, put) ==
    [l \in ((DOMAIN seed \ del) \cup DOMAIN put) |->
        IF l \in DOMAIN put THEN put[l] ELSE seed[l]]

\* the guesses within MaxEdits keys of a seed, over the puzzle's letters and
\* the extra one
Guesses(ld) ==
    LET keys == SeqToSet(ld.unique_letters) \cup {ExtraLetter}
        few == {s \in SUBSET keys : Cardinality(s) <= MaxEdits}
        edits == {e \in few \X few :
                    /\ e[1] \cap e[2] = {}
                    /\ Cardinality(e[1]) + Cardinality(e[2]) <= MaxEdits}
    IN  UNION { UNION { {Edited(seed, e[1], put) : put \in [e[2] -> Digits]} :
                        e \in edits } :
                seed \in Seeds(ld) }

\* the engine and the solver as constructed; any puzzle and any guess for it
\* in the crypto UI; the river challenge locked
InitValidator ==
    /\ EngineInit
    /\ SolverInit
    /\ SearchInit
    /\ SingleFileInit(0)
    /\ level_data \in Puzzles
    /\ current_guess \in Guesses(level_data)
    /\ is_unlocked = FALSE
    /\ pending_checks = 0
    /\ current_level = 0
    /\ highest_level_completed = 0
    /\ saved_progress = 0

NextValidator == validate_cryptarithmetic

SpecValidator == InitValidator /\ [][NextValidator]_allvars

\* The four rules of a valid assignment, stated on the puzzle and the guess.

\* the puzzle has three words, and its unique letters are the letters of its
\* words, each listed once
WellFormed(ld) ==
    /\ Len(ld.words) = 3
    /\ \A i \in 1..3 : ld.words[i] # <<>>
    /\ SeqToSet(ld.unique_letters) =
          UNION {SeqToSet(ld.words[i]) : i \in 1..3}
    /\ Cardinality(SeqToSet(ld.unique_letters)) = Len(ld.unique_letters)

\* every unique letter has a digit and no other key is present
Complete(ld, g) == DOMAIN g = SeqToSet(ld.unique_letters)

\* two distinct letters share a digit
HasDuplicate(g) == \E a \in DOMAIN g, b \in DOMAIN g : a # b /\ g[a] = g[b]

\* the first letter of some word is given 0
HasLeadingZero(ld, g) ==
    \E i \in 1..Len(ld.words) :
        ld.words[i][1] \in DOMAIN g /\ g[ld.words[i][1]] = 0

\* the word read as a base-10 number: its last digit counts 1, the one
\* before it 10, and so on
RECURSIVE Number(_, _)
Number(word, g) ==
    IF word = <<>> THEN 0
    ELSE 10 * Number(SubSeq(word, 1, Len(word) - 1), g) + g[word[Len(word)]]

ArithmeticHolds(ld, g) ==
    /\ \A i \in 1..3 : SeqToSet(ld.words[i]) \subseteq DOMAIN g
    /\ Number(ld.words[1], g) + Number(ld.words[2], g) = Number(ld.words[3], g)

ValidAssignment(ld, g) ==
    /\ Complete(ld, g)
    /\ ~HasDuplicate(g)
    /\ ~HasLeadingZero(ld, g)
    /\ ArithmeticHolds(ld, g)

\* validate_cryptarithmetic has been applied to the puzzle held
Validated ==
    current_puzzle = << [words |-> level_data.words,
                         unique_letters |-> level_data.unique_letters] >>

\* C12: for a puzzle of three words with its unique letters and a guess of
\* digits, the validator (of part3 and of the single-file game alike) returns
\* success if and only if the four rules hold: the guess has exactly the
\* unique letters as keys, its digits are pairwise distinct, no first letter
\* of a word is 0, and operand1 + operand2 = result in base 10.
ValidatorAcceptsExactlyValid ==
    WellFormed(level_data) =>
        /\ validate_cryptarithmetic_returns[1]
              <=> ValidAssignment(level_data, current_guess)
        /\ validate_cryptarithmetic_single_file(level_data, current_guess)[1]
              <=> ValidAssignment(level_data, current_guess)

\* both outcomes have been returned: after validation, a guess that differs
\* from level 2's accepted solution in one digit only is rejected for its
\* arithmetic
ValidatorAcceptsExactlyValidWitness ==
    /\ Validated
    /\ level_data = LEVELS[2]
    /\ ValidAssignment(level_data, level_data.solution)
    /\ validate_input(current_puzzle, level_data.solution)[1]
    /\ Complete(level_data, current_guess)
    /\ ~HasDuplicate(current_guess)
    /\ ~HasLeadingZero(level_data, current_guess)
    /\ validate_cryptarithmetic_returns = <<FALSE, "Incorrect">>

\* C13: the solution stored with a level is accepted by the validator for
\* that level's words and unique letters; for level 1 this is
\* {S:9,E:5,N:6,D:7,M:1,O:0,R:8,Y:2} with 9567 + 1085 = 10652.
StoredSolutionsAccepted ==
    /\ ("solution" \in DOMAIN level_data /\ current_guess = level_data.solution)
          => validate_cryptarithmetic_returns = <<TRUE, "Solution is correct!">>
    /\ (level_data = LEVELS[1] /\ current_guess = LEVELS[1].solution)
          => /\ word_to_number(level_data.words[1], current_guess) = <<"int", 9567>>
             /\ word_to_number(level_data.words[2], current_guess) = <<"int", 1085>>
             /\ word_to_number(level_data.words[3], current_guess) = <<"int", 10652>>

\* level 1's stored solution has been validated
StoredSolutionsAcceptedWitness ==
    /\ Validated
    /\ level_data = LEVELS[1]
    /\ current_guess = LEVELS[1].solution
    /\ current_guess["S"] = 9 /\ current_guess["O"] = 0
    /\ validate_input(current_puzzle, current_guess)[1]

\* C14: a guess in which two distinct letters share a digit is rejected, and
\* when the guess is complete the error is the duplicate-digit one, whether
\* or not a leading letter is 0 and whether or not the arithmetic holds
\* (validator of part3 and of the single-file game).
DuplicateDecidedFirst ==
    (WellFormed(level_data) /\ HasDuplicate(current_guess)) =>
        /\ ~validate_cryptarithmetic_returns[1]
        /\ ~validate_cryptarithmetic_single_file(level_data, current_guess)[1]
        /\ Complete(level_data, current_guess) =>
              /\ validate_cryptarithmetic_returns
                    = <<FALSE, "Duplicate digit assignments">>
              /\ validate_cryptarithmetic_single_file(level_data, current_guess)
                    = <<FALSE, "Error: Digits must be unique.">>

\* a complete guess with a duplicate that also puts 0 on a leading letter
\* has been validated and answered with the duplicate-digit error
DuplicateDecidedFirstWitness ==
    /\ Validated
    /\ Complete(level_data, current_guess)
    /\ HasDuplicate(current_guess)
    /\ HasLeadingZero(level_data, current_guess)
    /\ validate_input(current_puzzle, current_guess)[2]
          = "Duplicate digit assignments"

\* C15: a complete guess without duplicates that gives 0 to the first letter
\* of one of the three words is rejected with the leading-zero error, whether
\* or not operand1 + operand2 = result holds under it.
LeadingZeroRejected ==
    ( /\ WellFormed(level_data)
      /\ Complete(level_data, current_guess)
      /\ ~HasDuplicate(current_guess)
      /\ HasLeadingZero(level_data, current_guess) )
    => validate_cryptarithmetic_returns
          = <<FALSE, "Leading letter cannot be zero">>

\* a complete, duplicate-free guess with a leading 0 under which the sum is
\* right has been validated and answered with the leading-zero error
LeadingZeroRejectedWitness ==
    /\ Validated
    /\ Complete(level_data, current_guess)
    /\ ~HasDuplicate(current_guess)
    /\ HasLeadingZero(level_data, current_guess)
    /\ ArithmeticHolds(level_data, current_guess)
    /\ validate_input(current_puzzle, current_guess)[2]
          = "Leading letter cannot be zero"

(***************************************************************************)
(* The solver (part3_cryptarithmetic.py): backtracking search and cache    *)
(***************************************************************************)

\* An Optional[Dict] is <<>> for None and <<dict>> otherwise.

skip_digit_used_only(letter, digit, used_digits, leading_letters) ==
    digit \in used_digits

\* the two 'continue' tests of the digit loop
skip_digit(letter, digit, used_digits, leading_letters) ==
    \/ digit \in used_digits
    \/ letter \in leading_letters /\ digit = 0

RECURSIVE backtrack_solve(_, _, _, _, _)
RECURSIVE try_digits(_, _, _, _, _, _, _)

try_digits_no_backtracking(assignment, letter, remaining, used_digits, leading_letters, words, digit) ==
    IF digit \notin Digits THEN <<>>
    ELSE IF skip_digit(letter, digit, used_digits, leading_letters)
    THEN try_digits(assignment, letter, remaining, used_digits,
                    leading_letters, words, digit + 1)
    ELSE backtrack_solve((letter :> digit) @@ assignment, remaining,
                         used_digits \cup {digit}, leading_letters, words)

\* the digit loop carried on after a solution was found: the solution of the
\* last digit that has one is returned
try_digits_keeps_last(assignment, letter, remaining, used_digits, leading_letters, words, digit) ==
    IF digit \notin Digits THEN <<>>
    ELSE LET later == try_digits(assignment, letter, remaining, used_digits,
                                 leading_letters, words, digit + 1)
         IN  IF skip_digit(letter, digit, used_digits, leading_letters)
             THEN later
             ELSE IF later # <<>> THEN later
             ELSE backtrack_solve((letter :> digit) @@ assignment, remaining,
                                  used_digits \cup {digit}, leading_letters,
                                  words)

\* the loop 'for digit in range(10)' of _backtrack_solve, from digit on: the
\* first digit whose branch yields a solution wins; a branch that fails is
\* undone before the next digit
try_digits(assignment, letter, remaining, used_digits, leading_letters, words, digit) ==
    IF digit \notin Digits THEN <<>>
    ELSE IF skip_digit(letter, digit, used_digits, leading_letters)
    THEN try_digits(assignment, letter, remaining, used_digits,
                    leading_letters, words, digit + 1)
    ELSE LET result == backtrack_solve((letter :> digit) @@ assignment,
                                       remaining, used_digits \cup {digit},
                                       leading_letters, words)
         IN  IF result # <<>> THEN result
             ELSE try_digits(assignment, letter, remaining, used_digits,
                             leading_letters, words, digit + 1)

\* CryptarithmeticSolver._backtrack_solve
backtrack_solve(assignment, remaining_letters, used_digits, leading_letters, words) ==
    IF remaining_letters = <<>>
    THEN IF verify_mathematics(words, assignment)[1]
         THEN <<assignment>> ELSE <<>>
    ELSE try_digits(assignment, Head(remaining_letters),
                    Tail(remaining_letters), used_digits, leading_letters,
                    words, 0)

\* tuple(words + unique_letters): a letter of the list is the one-letter word
puzzle_key(words, unique_letters) ==
    words \o [i \in 1..Len(unique_letters) |-> <<unique_letters[i]>>]

\* the first letters of the words
leading_letters_of(words) ==
    {words[i][1] : i \in {j \in 1..Len(words) : words[j] # <<>>}}

\* what solve_puzzle(words, unique_letters) returns: the cached result, or
\* the result of the search
solve_puzzle_returns(words, unique_letters) ==
    IF puzzle_key(words, unique_letters) \in DOMAIN solution_cache
    THEN solution_cache[puzzle_key(words, unique_letters)]
    ELSE backtrack_solve(<<>>, unique_letters, {},
                         leading_letters_of(words), words)

solve_puzzle_caches_before_set_puzzle(words, unique_letters) ==
    IF puzzle_key(words, unique_letters) \in DOMAIN solution_cache
    THEN UNCHANGED solver
    ELSE set_puzzle(words, unique_letters)

\* CryptarithmeticSolver.solve_puzzle: on a cache hit nothing changes;
\* otherwise set_puzzle empties the cache and the result of the search
\* becomes its only entry
solve_puzzle(words, unique_letters) ==
    IF puzzle_key(words, unique_letters) \in DOMAIN solution_cache
    THEN UNCHANGED solver
    ELSE /\ current_puzzle' =
               << [words |-> words, unique_letters |-> unique_letters] >>
         /\ solution_cache' =
               (puzzle_key(words, unique_letters) :>
                    backtrack_solve(<<>>, unique_letters, {},
                                    leading_letters_of(words), words))

\* solve_puzzle_automatically(level_data)
solve_puzzle_automatically ==
    /\ solve_puzzle(level_data.words, level_data.unique_letters)
    /\ UNCHANGED <<vars, crypto_ui, controller, apart>>

\* the puzzles the solver is run on: levels 2 and 3 and the short puzzles
SolverPuzzles == {LEVELS[2], LEVELS[3]} \cup TestPuzzles

\* the solver as constructed and a puzzle to solve
InitSolver ==
    /\ EngineInit
    /\ SolverInit
    /\ SearchInit
    /\ SingleFileInit(0)
    /\ level_data \in SolverPuzzles
    /\ current_guess = <<>>
    /\ is_unlocked = FALSE
    /\ pending_checks = 0
    /\ current_level = 0
    /\ highest_level_completed = 0
    /\ saved_progress = 0

NextSolver == solve_puzzle_automatically

SpecSolver == InitSolver /\ [][NextSolver]_allvars

\* the solver as constructed and a short puzzle, to be solved and validated
\* any number of times
InitCache ==
    /\ EngineInit
    /\ SolverInit
    /\ SearchInit
    /\ SingleFileInit(0)
    /\ level_data \in TestPuzzles
    /\ current_guess = <<>>
    /\ is_unlocked = FALSE
    /\ pending_checks = 0
    /\ current_level = 0
    /\ highest_level_completed = 0
    /\ saved_progress = 0

NextCache ==
    \/ solve_puzzle_automatically
    \/ validate_cryptarithmetic

SpecCache == InitCache /\ [][NextCache]_allvars

\* the cache entry of the puzzle held
Cached == puzzle_key(level_data.words, level_data.unique_letters)

IsCached == Cached \in DOMAIN solution_cache

\* C16: an assignment returned by solve_puzzle is accepted by the validator
\* for the same puzzle: total on the unique letters, digits 0-9 pairwise
\* distinct, no leading letter at 0, arithmetic correct; and for TWO + TWO =
\* FOUR (level 2) the result is not None.
SolverSound ==
    IsCached =>
        /\ solution_cache[Cached] # <<>> =>
              /\ Values(solution_cache[Cached][1]) \subseteq Digits
              /\ ValidAssignment(level_data, solution_cache[Cached][1])
              /\ validate_input(current_puzzle, solution_cache[Cached][1])
                    = <<TRUE, "Solution is correct!">>
        /\ level_data = LEVELS[2] => solution_cache[Cached] # <<>>

\* TWO + TWO = FOUR has been solved
SolverSoundWitness ==
    /\ level_data = LEVELS[2]
    /\ IsCached
    /\ solution_cache[Cached] # <<>>
    /\ DOMAIN solution_cache[Cached][1] = {"T", "W", "O", "F", "U", "R"}

\* C17: solve_puzzle returns None only if no assignment of distinct digits to
\* the unique letters satisfies the leading-digit and arithmetic rules; when
\* a valid assignment exists the result is not None.
SolverComplete ==
    (IsCached /\ solution_cache[Cached] = <<>>) =>
        ~\E g \in [SeqToSet(level_data.unique_letters) -> Digits] :
            ValidAssignment(level_data, g)

\* None has been returned for a puzzle whose sum some assignment of distinct
\* digits satisfies, though only with a leading letter at 0
SolverCompleteWitness ==
    /\ IsCached
    /\ solution_cache[Cached] = <<>>
    /\ \E g \in [SeqToSet(level_data.unique_letters) -> Digits] :
          /\ ~HasDuplicate(g)
          /\ ArithmeticHolds(level_data, g)
          /\ HasLeadingZero(level_data, g)

\* C18: solve_puzzle called again with the same words and unique_letters
\* right after a first call finds the puzzle in the cache, so it returns the
\* result of the first call without searching.
CachedOnRepeat ==
    [][solve_puzzle_automatically =>
          /\ IsCached'
          /\ solve_puzzle_returns(level_data.words, level_data.unique_letters)'
                = solve_puzzle_returns(level_data.words,
                                       level_data.unique_letters)]_allvars

\* a puzzle has been solved and its result is in the cache
CachedOnRepeatWitness ==
    /\ IsCached
    /\ current_puzzle # <<>>
    /\ solve_puzzle_returns(level_data.words, level_data.unique_letters)
          = solution_cache[Cached]
    /\ solution_cache[Cached] # <<>>

(***************************************************************************)
(* The session controller and the river UI (part6_river_ui_controller.py)  *)
(* with the guess entry of the crypto UI (part5_crypto_ui.py)              *)
(***************************************************************************)

\* the number of status checks that may be queued at once
MaxPending == 1

\* RiverCrossingUI.unlock_challenge
unlock_challenge(missionaries, cannibals, capacity) ==
    /\ is_unlocked' = TRUE
    /\ initialize_game(missionaries, cannibals, capacity)

\* RiverCrossingUI.lock_challenge: the engine is left as it is
lock_challenge ==
    /\ is_unlocked' = FALSE
    /\ UNCHANGED vars

\* _on_crypto_solution unlocking with the parameters of the first level
\* whatever level is played
on_crypto_solution_first_level(is_valid) ==
    IF is_valid
    THEN unlock_challenge(LEVELS[1].final_m, LEVELS[1].final_c,
                          LEVELS[1].final_k)
    ELSE lock_challenge

\* CrypticCrossingsGame._on_crypto_solution
on_crypto_solution(is_valid) ==
    IF is_valid
    THEN unlock_challenge(LEVELS[current_level + 1].final_m,
                          LEVELS[current_level + 1].final_c,
                          LEVELS[current_level + 1].final_k)
    ELSE lock_challenge

\* CryptarithmeticUI._on_solve_clicked: the guess is validated and the
\* controller told the outcome
on_solve_clicked ==
    /\ set_puzzle(level_data.words, level_data.unique_letters)
    /\ on_crypto_solution(validate_cryptarithmetic_returns[1])
    /\ UNCHANGED <<crypto_ui, pending_checks, current_level,
                   highest_level_completed, saved_progress, apart>>

\* dict.pop(letter, None)
Pop(guess, letter) == [l \in DOMAIN guess \ {letter} |-> guess[l]]

\* _find_duplicate_assignment looking at the letter itself instead of the
\* other letters
find_duplicate_assignment_own_letter(digit, exclude_letter) ==
    \E l \in DOMAIN current_guess \cap {exclude_letter} : current_guess[l] = digit

\* _find_duplicate_assignment(digit, exclude_letter) finds a letter
find_duplicate_assignment(digit, exclude_letter) ==
    \E l \in DOMAIN current_guess \ {exclude_letter} : current_guess[l] = digit

\* on_input_change for the entry of a letter; content is <<>> for an emptied
\* entry and <<digit>> for a digit typed
on_input_change(letter, content) ==
    /\ current_guess' =
          IF content = <<>> THEN Pop(current_guess, letter)
          ELSE IF find_duplicate_assignment(content[1], letter)
          THEN Pop(current_guess, letter)
          ELSE (letter :> content[1]) @@ current_guess
    /\ UNCHANGED <<vars, solver, level_data, controller, apart>>

\* _on_character_click without the lock test
on_character_click_unguarded(character_id) ==
    IF get_character(character_id) = 0 THEN UNCHANGED vars
    ELSE IF character_id \in SeqToSet(boat_crew)
    THEN remove_from_boat(character_id)
    ELSE add_to_boat(character_id)

\* RiverCrossingUI._on_character_click
on_character_click(character_id) ==
    IF ~is_unlocked THEN UNCHANGED vars
    ELSE IF get_character(character_id) = 0 THEN UNCHANGED vars
    ELSE IF character_id \in SeqToSet(boat_crew)
    THEN remove_from_boat(character_id)
    ELSE add_to_boat(character_id)

\* RiverCrossingUI._travel_boat: a successful crossing queues a status check
travel_boat ==
    IF ~is_unlocked THEN UNCHANGED <<vars, pending_checks>>
    ELSE /\ travel
         /\ pending_checks' =
               IF can_travel[1] THEN pending_checks + 1 ELSE pending_checks

\* RiverCrossingUI._restart_river_challenge
restart_river_challenge ==
    IF is_unlocked THEN restart_game ELSE UNCHANGED vars

\* _load_level without its call of crypto_ui.load_level
load_level_controller_only(level_index) ==
    IF ~(0 <= level_index /\ level_index < get_level_count)
    THEN UNCHANGED <<current_level, crypto_ui, is_unlocked, vars>>
    ELSE /\ current_level' = level_index
         /\ UNCHANGED crypto_ui
         /\ lock_challenge

\* CrypticCrossingsGame._load_level, with CryptarithmeticUI.load_level
load_level(level_index) ==
    IF ~(0 <= level_index /\ level_index < get_level_count)
    THEN UNCHANGED <<current_level, crypto_ui, is_unlocked, vars>>
    ELSE /\ current_level' = level_index
         /\ level_data' = LEVELS[level_index + 1]
         /\ current_guess' = <<>>
         /\ lock_challenge

\* CrypticCrossingsGame._on_river_complete
on_river_complete ==
    /\ highest_level_completed' =
          IF current_level >= highest_level_completed
          THEN current_level + 1 ELSE highest_level_completed
    /\ saved_progress' =
          IF current_level >= highest_level_completed
          THEN current_level + 1 ELSE saved_progress
    /\ load_level(IF current_level < get_level_count - 1
                  THEN current_level + 1 ELSE 0)

\* RiverCrossingUI._check_game_status, run by the timer
river_ui_check_game_status ==
    IF is_game_over /\ is_won THEN on_river_complete
    ELSE /\ IF is_game_over THEN restart_river_challenge
            ELSE UNCHANGED vars
         /\ UNCHANGED <<current_level, crypto_ui, is_unlocked,
                        highest_level_completed, saved_progress>>

\* The player.  Letters are entered in the order of the entry fields, each
\* with the digit of the level's solution or with the digit of the first
\* letter, and the last entry can be emptied.  On the river the player
\* assembles the crew of a winning plan for the level or, for the first
\* crossing, a lone missionary; the last character aboard can be put back.

\* winning crews for each level, by type
RiverPlans ==
    << ClassicPlan,
       << <<CANNIBAL, CANNIBAL>>, <<CANNIBAL>>, <<CANNIBAL, CANNIBAL, CANNIBAL>>,
          <<CANNIBAL>>, <<MISSIONARY, MISSIONARY, MISSIONARY>>,
          <<MISSIONARY, CANNIBAL>>, <<MISSIONARY, MISSIONARY>>, <<CANNIBAL>>,
          <<CANNIBAL, CANNIBAL, CANNIBAL>> >>,
       << <<CANNIBAL, CANNIBAL>>, <<CANNIBAL>>, <<CANNIBAL, CANNIBAL, CANNIBAL>>,
          <<CANNIBAL>>, <<MISSIONARY, MISSIONARY, MISSIONARY>>,
          <<MISSIONARY, CANNIBAL>>, <<MISSIONARY, MISSIONARY, MISSIONARY>>,
          <<CANNIBAL>>, <<CANNIBAL, CANNIBAL>>, <<CANNIBAL>>,
          <<CANNIBAL, CANNIBAL, CANNIBAL>> >> >>

\* the crews the player may assemble for the next crossing
PlayCrews ==
    (IF move_count < Len(RiverPlans[current_level + 1])
     THEN {RiverPlans[current_level + 1][move_count + 1]} ELSE {})
    \cup (IF move_count = 0 THEN {<<MISSIONARY>>} ELSE {})

\* the types of the characters aboard, in boarding order
CrewTypes ==
    [i \in 1..Len(boat_crew) |-> characters[get_character(boat_crew[i])].type]

\* the first character of the type waiting on the boat's bank, if any
FirstWaiting(type) ==
    LET waiting == {i \in get_characters_on_side(boat_side) :
                        characters[i].type = type}
    IN  {characters[i].id : i \in {j \in waiting : \A k \in waiting : j <= k}}

\* the characters the player clicks: while a game is on, the next of a crew
\* being assembled or the last one aboard; otherwise any character
ClickTargets ==
    IF is_unlocked /\ ~is_game_over
    THEN UNION {FirstWaiting(crew[Len(boat_crew) + 1]) :
                  crew \in {c \in PlayCrews :
                              /\ Len(c) > Len(boat_crew)
                              /\ SubSeq(c, 1, Len(boat_crew)) = CrewTypes}}
         \cup (IF boat_crew = <<>> THEN {} ELSE {boat_crew[Len(boat_crew)]})
    ELSE {characters[i].id : i \in 1..Len(characters)} \cup {MId(1)}

\* the entry the player types into next, and the one typed into last
NextEntry ==
    {level_data.unique_letters[i] :
        i \in {j \in 1..Len(level_data.unique_letters) :
                 Cardinality(DOMAIN current_guess) = j - 1}}

LastEntry ==
    {level_data.unique_letters[i] :
        i \in {j \in 1..Len(level_data.unique_letters) :
                 Cardinality(DOMAIN current_guess) = j}}

\* CrypticCrossingsGame.__init__ on any save the game writes
InitController ==
    /\ EngineInit
    /\ SolverInit
    /\ SearchInit
    /\ SingleFileInit(0)
    /\ \E saved \in 0..(get_level_count - 1) : ControllerInit(saved)

OnInputChange ==
    \/ \E letter \in NextEntry :
          \E digit \in {level_data.solution[letter],
                        level_data.solution[level_data.unique_letters[1]]} :
              on_input_change(letter, <<digit>>)
    \/ \E letter \in LastEntry : on_input_change(letter, <<>>)

OnSolveClicked == on_solve_clicked

OnCharacterClick ==
    /\ \E id \in ClickTargets : on_character_click(id)
    /\ UNCHANGED session

\* the player rows once a crew is assembled; the row button also answers
\* when nothing can come of it
TravelBoat ==
    /\ (is_unlocked /\ can_travel[1]) =>
          (CrewTypes \in PlayCrews /\ pending_checks < MaxPending)
    /\ travel_boat
    /\ UNCHANGED <<solver, crypto_ui, is_unlocked, current_level,
                   highest_level_completed, saved_progress, apart>>

\* a queued status check comes due
CheckGameStatusDue ==
    /\ pending_checks > 0
    /\ pending_checks' = pending_checks - 1
    /\ river_ui_check_game_status
    /\ UNCHANGED <<solver, apart>>

RestartRiverChallenge ==
    /\ restart_river_challenge
    /\ UNCHANGED session

NextController ==
    \/ OnInputChange
    \/ OnSolveClicked
    \/ OnCharacterClick
    \/ TravelBoat
    \/ CheckGameStatusDue
    \/ RestartRiverChallenge

SpecController == InitController /\ [][NextController]_allvars

\* a step of the Solve button whose validation returns success, and one whose
\* validation returns a failure
SuccessfulValidation ==
    on_solve_clicked /\ validate_cryptarithmetic_returns[1]

FailedValidation ==
    on_solve_clicked /\ ~validate_cryptarithmetic_returns[1]

\* the river state a level starts from
FreshRiverState(level) ==
    /\ missionaries_left = LEVELS[level + 1].final_m
    /\ cannibals_left = LEVELS[level + 1].final_c
    /\ missionaries_right = 0
    /\ cannibals_right = 0
    /\ boat_side = LEFT
    /\ boat_crew = <<>>
    /\ boat_capacity = LEVELS[level + 1].final_k
    /\ total_missionaries = LEVELS[level + 1].final_m
    /\ total_cannibals = LEVELS[level + 1].final_c
    /\ move_count = 0
    /\ ~is_game_over
    /\ ~is_won
    /\ Len(characters) = LEVELS[level + 1].final_m + LEVELS[level + 1].final_c
    /\ \A i \in 1..Len(characters) : characters[i].location = LEFT
    /\ move_history = <<>>

\* C19: the river challenge is gated by the puzzle.  The river state changes
\* only in a step that leaves the challenge unlocked and that either began
\* unlocked or is a successful validation of the level's puzzle; the
\* challenge becomes unlocked only by a successful validation, a failed
\* validation leaves it locked, and so does every change of level: after a
\* level load and before a successful validation no click, crossing or
\* restart has an effect.
RiverGatedByPuzzle ==
    [][ /\ (vars' # vars) =>
              (is_unlocked' /\ (is_unlocked \/ SuccessfulValidation))
        /\ (is_unlocked' /\ ~is_unlocked) => SuccessfulValidation
        /\ FailedValidation => ~is_unlocked'
        /\ (current_level' # current_level \/ level_data' # level_data) =>
              ~is_unlocked' ]_allvars

\* the second level unlocked and a crossing made in it
RiverGatedByPuzzleWitness ==
    /\ is_unlocked
    /\ current_level = 1
    /\ move_count >= 1
    /\ total_missionaries = LEVELS[2].final_m

\* C20: a failed validation locks the challenge and the river game in
\* progress is discarded: while the challenge is locked nothing but a
\* successful validation changes the level, the progress, the saved progress
\* or the river state, and a successful validation starts the river from the
\* fresh state of the level.
DiscardedOnFailure ==
    [][ /\ FailedValidation => ~is_unlocked'
        /\ (~is_unlocked /\ ~SuccessfulValidation) =>
              /\ current_level' = current_level
              /\ highest_level_completed' = highest_level_completed
              /\ saved_progress' = saved_progress
              /\ vars' = vars
        /\ SuccessfulValidation => FreshRiverState(current_level)' ]_allvars

(***************************************************************************)
(* Crossings made within the delay of a queued status check                *)
(***************************************************************************)

\* the number of status checks queued at once when the player rows again
\* before the check of the crossing before has come due
MaxQueued == 2

TravelBoatAgain ==
    /\ (is_unlocked /\ can_travel[1]) =>
          (CrewTypes \in PlayCrews /\ pending_checks < MaxQueued)
    /\ travel_boat
    /\ UNCHANGED <<solver, crypto_ui, is_unlocked, current_level,
                   highest_level_completed, saved_progress, apart>>

NextRapid ==
    \/ OnInputChange
    \/ OnSolveClicked
    \/ OnCharacterClick
    \/ TravelBoatAgain
    \/ CheckGameStatusDue
    \/ RestartRiverChallenge

SpecRapid == InitController /\ [][NextRapid]_allvars

\* the river game held by the engine is the one of the level: the levels
\* differ in their populations or capacity
RiverOfLevel(level) ==
    /\ total_missionaries = LEVELS[level + 1].final_m
    /\ total_cannibals = LEVELS[level + 1].final_c
    /\ boat_capacity = LEVELS[level + 1].final_k

\* the level after a level, the first one after the last
NextLevel(level) ==
    IF level < get_level_count - 1 THEN level + 1 ELSE 0

\* C21: a win advances the level once.  The level changes only on a won
\* river game of the current level, it changes to the next level (to the
\* first after the last) and leaves the challenge locked; since a level's
\* river game starts only with that level unlocked, a second advance on the
\* same win would be a change of level on the river game of another level.
OneAdvancePerWin ==
    [][ (current_level' # current_level) =>
            /\ is_game_over /\ is_won
            /\ RiverOfLevel(current_level)
            /\ current_level' = NextLevel(current_level)
            /\ ~is_unlocked' ]_allvars

\* C22: progress is saved at most once per win and only upwards.  The saved
\* progress changes only on a won river game of the current level, to that
\* level's index + 1, and only when this exceeds the highest level recorded;
\* the highest level recorded never decreases.
SaveOncePerWin ==
    [][ /\ highest_level_completed' >= highest_level_completed
        /\ (saved_progress' # saved_progress) =>
              /\ is_game_over /\ is_won
              /\ RiverOfLevel(current_level)
              /\ saved_progress' = current_level + 1
              /\ current_level + 1 > highest_level_completed ]_allvars

\* C23: a stale status check does nothing.  Checks are queued only while the
\* challenge is unlocked, so one that comes due while it is locked was queued
\* before a re-lock or a level advance: it changes neither the river state
\* nor the level, the guess, the lock or the progress.
StaleCheckDoesNothing ==
    [][ (~is_unlocked /\ pending_checks' < pending_checks) =>
            /\ vars' = vars
            /\ crypto_ui' = crypto_ui
            /\ is_unlocked' = is_unlocked
            /\ current_level' = current_level
            /\ highest_level_completed' = highest_level_completed
            /\ saved_progress' = saved_progress ]_allvars

(***************************************************************************)
(* Guesses with a letter entered under a key that is not a puzzle letter   *)
(***************************************************************************)

\* the level's stored solution with the entry of one letter removed and the
\* extra key given a digit: as many keys as the puzzle has letters
Respelled(ld) ==
    { Edited(ld.solution, {l}, ExtraLetter :> d) :
        l \in SeqToSet(ld.unique_letters), d \in Digits }

InitCompleteness ==
    /\ EngineInit
    /\ SolverInit
    /\ SearchInit
    /\ SingleFileInit(0)
    /\ level_data \in {LEVELS[i] : i \in 1..Len(LEVELS)}
    /\ current_guess \in Guesses(level_data) \cup Respelled(level_data)
    /\ is_unlocked = FALSE
    /\ pending_checks = 0
    /\ current_level = 0
    /\ highest_level_completed = 0
    /\ saved_progress = 0

SpecCompleteness == InitCompleteness /\ [][NextValidator]_allvars

\* C24: completeness is checked first.  Whenever a letter of unique_letters
\* has no digit in the guess, the validator answers with a missing-assignment
\* error, also when the guess holds a duplicate digit, a leading zero or a
\* key that is not a puzzle letter.  Both messages about a missing letter
\* are taken for that error here: the one of rule 1 and the one the
\* arithmetic step gives for a letter without a key.
MissingReportedFirst ==
    ( /\ Validated
      /\ WellFormed(level_data)
      /\ SeqToSet(level_data.unique_letters) \ DOMAIN current_guess # {} )
    => validate_cryptarithmetic_returns[2]
          \in {"Missing assignments for", "Missing digit assignment for letter"}

(***************************************************************************)
(* Boarding, leaving the boat and the placement of the characters          *)
(***************************************************************************)

\* no character id is in the crew twice
CrewDistinct ==
    \A i \in 1..Len(boat_crew), j \in 1..Len(boat_crew) :
        boat_crew[i] = boat_crew[j] => i = j

\* C25 as stated: add_to_boat of a character that is in the crew fails with
\* the already-aboard error whatever the size of the crew, the full boat
\* included, and the crew never holds an id twice.
AlreadyAboardWhateverCrew ==
    /\ \A id \in SeqToSet(boat_crew) :
          add_to_boat_returns(id) = <<FALSE, "Character is already on the boat">>
    /\ CrewDistinct

\* C25: add_to_boat of a character that is in the crew fails: with the
\* already-aboard error while the crew is below the
\* capacity, with the boat-full error when the boat is full, whose test
\* comes first; the crew never holds an id twice.
AlreadyAboardRejected ==
    /\ \A id \in SeqToSet(boat_crew) :
          add_to_boat_returns(id) =
              IF Len(boat_crew) >= boat_capacity
              THEN <<FALSE, "Boat is full (capacity: "
                            \o ToString(boat_capacity) \o ")">>
              ELSE <<FALSE, "Character is already on the boat">>
    /\ CrewDistinct

\* one character aboard a boat for two, and add_to_boat of that character
\* answered with the already-aboard error
AlreadyAboardRejectedWitness ==
    /\ Active
    /\ boat_capacity = 2
    /\ Len(boat_crew) = 1
    /\ add_to_boat_returns(boat_crew[1]) =
          <<FALSE, "Character is already on the boat">>

\* 1 when the boat is at the side and the character is of the type, else 0
OneIf(side, type, char_type) ==
    IF boat_side = side /\ char_type = type THEN 1 ELSE 0

\* every character but the one at the position is as it was, and that one
\* keeps its id and type and is located at the boat's side
OnlyPlaced(position) ==
    /\ Len(characters') = Len(characters)
    /\ \A i \in (1..Len(characters)) \ {position} : characters'[i] = characters[i]
    /\ characters'[position] = [characters[position] EXCEPT !.location = boat_side]

\* C26: a successful add_to_boat(id) appends id to the crew and takes exactly
\* 1 from the count of the character's type on the boat's bank; the other
\* three bank counts, boat_side, move_count, the flags, the totals, the
\* history and every other character are unchanged.
AddEffect ==
    [][\/ UNCHANGED vars
       \/ \A id \in Ids : AddOk(id) =>
            LET position == get_character(id)
                type == characters[position].type
            IN  /\ boat_crew' = Append(boat_crew, id)
                /\ missionaries_left' =
                      missionaries_left - OneIf(LEFT, MISSIONARY, type)
                /\ cannibals_left' = cannibals_left - OneIf(LEFT, CANNIBAL, type)
                /\ missionaries_right' =
                      missionaries_right - OneIf(RIGHT, MISSIONARY, type)
                /\ cannibals_right' =
                      cannibals_right - OneIf(RIGHT, CANNIBAL, type)
                /\ (missionaries_left' + cannibals_left'
                      + missionaries_right' + cannibals_right')
                   = (missionaries_left + cannibals_left
                      + missionaries_right + cannibals_right) - 1
                /\ OnlyPlaced(position)
                /\ UNCHANGED <<boat_side, move_count, flags, totals, move_history>>
      ]_vars

\* a character boarded on the right bank after a crossing
AddEffectWitness ==
    /\ Active
    /\ boat_side = RIGHT
    /\ move_count = 1
    /\ Len(boat_crew) = 1
    /\ Len(move_history) = 1

Ashore(side, type) ==
    Cardinality({i \in get_characters_on_side(side) : characters[i].type = type})

ValidationHasNoSideEffects ==
    [][validate_cryptarithmetic =>
          /\ current_guess' = current_guess
          /\ level_data' = level_data
          /\ solution_cache' = solution_cache
          /\ validate_cryptarithmetic_returns' = validate_cryptarithmetic_returns
      ]_allvars

(***************************************************************************)
(* The solver's cache over a session, and the order of its search          *)
(***************************************************************************)

\* C31: a solved result stays cached for the session under its (words,
\* unique_letters) key: once solve_puzzle has answered for a puzzle, every
\* later step of the session (validate_cryptarithmetic and further solver
\* calls included) leaves that entry in the cache with the same result, so a
\* later solve_puzzle for it is answered without searching.
SolvedStaysCached ==
    [][IsCached =>
          /\ IsCached'
          /\ solution_cache'[Cached] = solution_cache[Cached]]_allvars

\* the digits of an assignment in the order of the puzzle's unique_letters
DigitTuple(ld, g) ==
    [i \in 1..Len(ld.unique_letters) |-> g[ld.unique_letters[i]]]

RECURSIVE LexLeq(_, _)

\* a is lexicographically at most b (sequences of the same length)
LexLeq(a, b) ==
    IF a = <<>> THEN TRUE
    ELSE IF a[1] < b[1] THEN TRUE
    ELSE IF a[1] > b[1] THEN FALSE
    ELSE LexLeq(Tail(a), Tail(b))

\* C32: solve_puzzle returns the first valid assignment of its depth-first
\* order (letters in unique_letters order, digits ascending): the digit tuple
\* of the result is lexicographically least among the digit tuples of all
\* valid assignments of the puzzle, so any two runs on the same puzzle return
\* the same assignment.
FirstInSearchOrder ==
    (IsCached /\ solution_cache[Cached] # <<>>) =>
        \A g \in [SeqToSet(level_data.unique_letters) -> Digits] :
            ValidAssignment(level_data, g) =>
                LexLeq(DigitTuple(level_data, solution_cache[Cached][1]),
                       DigitTuple(level_data, g))

\* a puzzle with more than one valid assignment has been solved
FirstInSearchOrderWitness ==
    /\ IsCached
    /\ solution_cache[Cached] # <<>>
    /\ \E g \in [SeqToSet(level_data.unique_letters) -> Digits] :
          /\ ValidAssignment(level_data, g)
          /\ g # solution_cache[Cached][1]

(***************************************************************************)
(* _backtrack_solve as it runs: assignment and used_digits are one dict    *)
(* and one set, changed in place and shared by all levels of the recursion *)
(***************************************************************************)

RECURSIVE backtrack_run(_, _, _, _, _)
RECURSIVE digit_loop(_, _, _, _, _, _, _)

\* the digit loop without 'used_digits.remove(digit)' after a failed branch
digit_loop_keeps_digit(assignment, letter, remaining, used_digits, leading_letters, words, digit) ==
    IF digit \notin Digits
    THEN [result |-> <<>>, assignment |-> assignment,
          used_digits |-> used_digits, evaluated |-> 0, visited |-> <<>>]
    ELSE IF skip_digit(letter, digit, used_digits, leading_letters)
    THEN digit_loop(assignment, letter, remaining, used_digits,
                    leading_letters, words, digit + 1)
    ELSE LET made == (letter :> digit) @@ assignment
             inner == backtrack_run(made, remaining, used_digits \cup {digit},
                                    leading_letters, words)
         IN  IF inner.result # <<>>
             THEN [inner EXCEPT !.visited = <<made>> \o @]
             ELSE LET rest == digit_loop(
                                  [l \in DOMAIN inner.assignment \ {letter} |->
                                      inner.assignment[l]],
                                  letter, remaining, inner.used_digits,
                                  leading_letters, words, digit + 1)
                  IN  [rest EXCEPT
                          !.evaluated = inner.evaluated + @,
                          !.visited = <<made>> \o inner.visited \o @]

\* the loop 'for digit in range(10)' from digit on. The record returned holds
\* what the call returns (result), the dict and the set as the call leaves
\* them, the number of _verify_mathematics calls made (evaluated) and the
\* assignments made by 'assignment[letter] = digit', in order (visited)
digit_loop(assignment, letter, remaining, used_digits, leading_letters, words, digit) ==
    IF digit \notin Digits
    THEN [result |-> <<>>, assignment |-> assignment,
          used_digits |-> used_digits, evaluated |-> 0, visited |-> <<>>]
    ELSE IF skip_digit(letter, digit, used_digits, leading_letters)
    THEN digit_loop(assignment, letter, remaining, used_digits,
                    leading_letters, words, digit + 1)
    ELSE LET made == (letter :> digit) @@ assignment
             inner == backtrack_run(made, remaining, used_digits \cup {digit},
                                    leading_letters, words)
         IN  IF inner.result # <<>>
             THEN [inner EXCEPT !.visited = <<made>> \o @]
             ELSE LET rest == digit_loop(
                                  [l \in DOMAIN inner.assignment \ {letter} |->
                                      inner.assignment[l]],
                                  letter, remaining,
                                  inner.used_digits \ {digit},
                                  leading_letters, words, digit + 1)
                  IN  [rest EXCEPT
                          !.evaluated = inner.evaluated + @,
                          !.visited = <<made>> \o inner.visited \o @]

\* _backtrack_solve, with what it leaves behind
backtrack_run(assignment, remaining_letters, used_digits, leading_letters, words) ==
    IF remaining_letters = <<>>
    THEN [result |-> IF verify_mathematics(words, assignment)[1]
                     THEN <<assignment>> ELSE <<>>,
          assignment |-> assignment, used_digits |-> used_digits,
          evaluated |-> 1, visited |-> <<>>]
    ELSE digit_loop(assignment, Head(remaining_letters),
                    Tail(remaining_letters), used_digits, leading_letters,
                    words, 0)

\* the call on the arguments held
backtrack_run_returns ==
    backtrack_run(search_assignment, search_remaining, search_used_digits,
                  leading_letters_of(level_data.words), level_data.words)

\* _backtrack_solve called with letters still to assign that the dict does
\* not hold yet, as in every call the solver makes
BacktrackSolve ==
    /\ SeqToSet(search_remaining) \cap DOMAIN search_assignment = {}
    /\ search_assignment' = backtrack_run_returns.assignment
    /\ search_used_digits' = backtrack_run_returns.used_digits
    /\ UNCHANGED <<vars, solver, crypto_ui, controller, search_remaining,
                   single_file>>

\* the longest partial assignment a search is started from on a short puzzle
MaxPrefix == 1

\* a puzzle of eleven letters, and the shortest partial assignment a search
\* is started from on it
LongPuzzle ==
    [words |-> << <<"A","B","C","D","E","F">>, <<"G","H","I","J","K">>,
                  <<"A">> >>,
     unique_letters |-> <<"A","B","C","D","E","F","G","H","I","J","K">>]

LongPrefix == 7

\* the partial assignments the search makes of the first n unique letters:
\* distinct digits, no leading letter at 0
Prefixes(ld, n) ==
    {g \in [{ld.unique_letters[i] : i \in 1..n} -> Digits] :
        /\ \A i, j \in 1..n : i # j =>
              g[ld.unique_letters[i]] # g[ld.unique_letters[j]]
        /\ \A l \in DOMAIN g : l \in leading_letters_of(ld.words) => g[l] # 0}

RECURSIVE FirstDescent(_, _)

\* the search's own first descent on the first n letters: each letter gets
\* the least digit the loop does not skip
FirstDescent(ld, n) ==
    IF n = 0 THEN <<>>
    ELSE LET g == FirstDescent(ld, n - 1)
             letter == ld.unique_letters[n]
             free == {d \in Digits :
                         ~skip_digit(letter, d, Values(g),
                                     leading_letters_of(ld.words))}
         IN  (letter :> CHOOSE d \in free : \A e \in free : d <= e) @@ g

\* a call of the search: at the root or below a partial assignment
InitSearch ==
    /\ EngineInit
    /\ SolverInit
    /\ SingleFileInit(0)
    /\ current_guess = <<>>
    /\ is_unlocked = FALSE
    /\ pending_checks = 0
    /\ current_level = 0
    /\ highest_level_completed = 0
    /\ saved_progress = 0
    /\ \/ /\ level_data \in TestPuzzles
          /\ \E n \in 0..MaxPrefix :
                /\ n <= Len(level_data.unique_letters)
                /\ search_assignment \in Prefixes(level_data, n)
                /\ search_remaining =
                      SubSeq(level_data.unique_letters, n + 1,
                             Len(level_data.unique_letters))
       \/ /\ level_data = LongPuzzle
          /\ \E n \in LongPrefix..Cardinality(Digits) :
                /\ search_assignment = FirstDescent(LongPuzzle, n)
                /\ search_remaining =
                      SubSeq(LongPuzzle.unique_letters, n + 1,
                             Len(LongPuzzle.unique_letters))
    /\ search_used_digits = Values(search_assignment)

NextSearch == BacktrackSolve

SpecSearch == InitSearch /\ [][NextSearch]_allvars

RECURSIVE Arrangements(_, _)

\* the number of ways to give r letters distinct digits out of n: n!/(n-r)!,
\* and none when r > n
Arrangements(n, r) ==
    IF r = 0 THEN 1
    ELSE IF r > n THEN 0
    ELSE n * Arrangements(n - 1, r - 1)

\* C33: the backtracking search terminates within its bound and cleans up
\* after itself: a call with u digits in use and r letters to assign makes
\* at most (10-u)!/(10-u-r)! evaluations of a complete assignment (at the
\* root, 10!/(10-k)! for k letters) and none when the letters outnumber the
\* free digits, never makes the same partial assignment twice, and when it
\* returns None the assignment dict and the used_digits set are as they were
\* when it was called.
SearchBoundedAndUndone ==
    [][BacktrackSolve =>
          /\ backtrack_run_returns.evaluated <=
                Arrangements(Cardinality(Digits)
                                 - Cardinality(search_used_digits),
                             Len(search_remaining))
          /\ Cardinality(SeqToSet(backtrack_run_returns.visited))
                = Len(backtrack_run_returns.visited)
          /\ backtrack_run_returns.result = <<>> =>
                /\ search_assignment' = search_assignment
                /\ search_used_digits' = search_used_digits]_allvars

\* a search from the root of a three-letter puzzle that tries complete
\* assignments, finds none and returns None
SearchBoundedAndUndoneWitness ==
    /\ search_assignment = <<>>
    /\ Len(search_remaining) = 3
    /\ backtrack_run_returns.result = <<>>
    /\ backtrack_run_returns.evaluated > 100

(***************************************************************************)
(* The river a successful validation starts                                *)
(***************************************************************************)

\* C34: on every validator success the river engine is initialized with the
\* final_m missionaries, final_c cannibals and final_k capacity of the level
\* whose puzzle was validated, which is the controller's current level:
\* everybody stands on the left bank, the boat is on the left and empty, and
\* the challenge is unlocked.
UnlockedWithLevelParameters ==
    [][SuccessfulValidation =>
          /\ level_data = LEVELS[current_level + 1]
          /\ is_unlocked'
          /\ totals' = <<level_data.final_k, level_data.final_m,
                         level_data.final_c>>
          /\ counts' = <<level_data.final_m, level_data.final_c, 0, 0>>
          /\ boat_side' = LEFT
          /\ boat_crew' = <<>>
          /\ Cardinality({i \in DOMAIN characters' :
                             characters'[i].type = MISSIONARY})
                = level_data.final_m
          /\ Cardinality({i \in DOMAIN characters' :
                             characters'[i].type = CANNIBAL})
                = level_data.final_c
          /\ \A i \in DOMAIN characters' : characters'[i].location = LEFT
      ]_allvars

\* the third level's puzzle has been validated with two levels completed,
\* and its river stands ready
UnlockedWithLevelParametersWitness ==
    /\ is_unlocked
    /\ current_level = 2
    /\ highest_level_completed = 2
    /\ saved_progress = 2
    /\ level_data = LEVELS[3]
    /\ current_guess = LEVELS[3].solution
    /\ total_missionaries = 5
    /\ missionaries_left = 5
    /\ cannibals_left = 5
    /\ boat_capacity = 3
    /\ move_count = 0

(***************************************************************************)
(* The guess under free typing (part5_crypto_ui.py, and the same handler   *)
(* in cryptic_crossings.py)                                                *)
(***************************************************************************)

\* the digit characters, in the order of their values
DigitChars == <<"0", "1", "2", "3", "4", "5", "6", "7", "8", "9">>

\* str.isdigit() on one character of the keyboard
isdigit(char) == \E i \in 1..Len(DigitChars) : DigitChars[i] = char

\* int(content) for a digit character
int(char) == (CHOOSE i \in 1..Len(DigitChars) : DigitChars[i] = char) - 1

\* on_input_change as the trace on the entry's StringVar runs it: text is
\* the entry's content after the keystroke, a sequence of characters.  Of a
\* longer text the last character is kept; a digit character is converted
\* and entered, anything else empties the entry and drops the letter.  The
\* var.set calls inside the handler run it again on the content they set,
\* which leaves the guess where the outer run leaves it.
on_input_write(letter, text) ==
    LET content == IF Len(text) > 1 THEN <<text[Len(text)]>> ELSE text
    IN  IF content = <<>> THEN on_input_change(letter, <<>>)
        ELSE IF isdigit(content[1])
        THEN on_input_change(letter, <<int(content[1])>>)
        ELSE on_input_change(letter, <<>>)

\* the greatest digit typed
MaxTyped == 1

\* the characters typed: digits and a letter
TypedChars == {DigitChars[d + 1] : d \in 0..MaxTyped} \cup {"x"}

\* what a keystroke can leave in an entry: nothing, one character, or the
\* digit the entry held with the character typed before or after it
EntryTexts ==
    {<<>>} \cup {<<c>> : c \in TypedChars}
           \cup {t \in {<<c, d>> : c \in TypedChars, d \in TypedChars} :
                    isdigit(t[1]) \/ isdigit(t[2])}

\* a keystroke in the entry of any letter of the level
OnInputWrite ==
    \E letter \in SeqToSet(level_data.unique_letters) :
        \E text \in EntryTexts : on_input_write(letter, text)

\* _load_level called with any index, in range or not
LoadLevel ==
    /\ \E level_index \in -1..get_level_count : load_level(level_index)
    /\ UNCHANGED <<solver, pending_checks, highest_level_completed,
                   saved_progress, apart>>

NextEntries ==
    \/ OnInputWrite
    \/ LoadLevel

SpecEntries == Init /\ [][NextEntries]_allvars

\* the digit a text would enter, if it would enter one: <<digit>> or <<>>
Entered(text) ==
    IF text = <<>> THEN <<>>
    ELSE IF isdigit(text[Len(text)]) THEN <<int(text[Len(text)])>>
    ELSE <<>>

\* C35: under any sequence of entry events (a digit typed, a non-digit
\* typed, a deletion, an overtyping) and level loads the guess keeps its
\* form: its keys are unique letters of the current level, its values are
\* digits 0-9 and no two letters hold the same digit; an entry that would
\* give a letter the digit another letter holds is rejected and leaves that
\* letter unassigned.
GuessKeepsForm ==
    [][ /\ DOMAIN current_guess' \subseteq SeqToSet(level_data'.unique_letters)
        /\ Values(current_guess') \subseteq Digits
        /\ \A l1, l2 \in DOMAIN current_guess' :
              l1 # l2 => current_guess'[l1] # current_guess'[l2]
        /\ \A letter \in DOMAIN current_guess' :
              \A text \in EntryTexts :
                  ~ /\ Entered(text) # <<>>
                    /\ \E l \in DOMAIN current_guess \ {letter} :
                          current_guess[l] = Entered(text)[1]
                    /\ on_input_write(letter, text)
      ]_allvars

\* letters of the second level hold all the digits typed, its last letter
\* one of them
GuessKeepsFormWitness ==
    /\ level_data = LEVELS[2]
    /\ Cardinality(DOMAIN current_guess) = MaxTyped + 1
    /\ Values(current_guess) = 0..MaxTyped
    /\ "R" \in DOMAIN current_guess

(***************************************************************************)
(* The level index over a session started from any save file               *)
(***************************************************************************)

\* how far below 0 the number in a save file may lie
MaxBelow == 1

\* ProgressManager.load_progress on a save file holding the number file: a
\* number above the last level index is cut down to it
load_progress(file) ==
    IF file > get_level_count - 1 THEN get_level_count - 1 ELSE file

\* CrypticCrossingsGame.__init__ on a save file holding the number file:
\* _load_level(min(highest_level_completed, get_level_count() - 1)) returns
\* at once on an index out of range, and the controller and the crypto UI
\* stay at level 0 as constructed
ControllerStart(file) ==
    /\ saved_progress = file
    /\ highest_level_completed = load_progress(file)
    /\ current_level =
          LET level_index ==
                  IF highest_level_completed < get_level_count - 1
                  THEN highest_level_completed ELSE get_level_count - 1
          IN  IF 0 <= level_index /\ level_index < get_level_count
              THEN level_index ELSE 0
    /\ level_data = LEVELS[current_level + 1]
    /\ current_guess = <<>>
    /\ is_unlocked = FALSE
    /\ pending_checks = 0

\* a session on any save file: what the game writes (up to the number of
\* levels) and numbers below 0
InitAnySave ==
    /\ EngineInit
    /\ SolverInit
    /\ SearchInit
    /\ SingleFileInit(0)
    /\ \E file \in (0 - MaxBelow)..get_level_count : ControllerStart(file)

SpecAnySave == InitAnySave /\ [][NextRapid]_allvars

\* C36: the current level index is a valid index at every point of a
\* session, whatever load_progress returned at the start and however many
\* games were won; the puzzle the crypto UI shows is the one of the
\* controller's current level, and an unlocked river has the parameters of
\* that level.
LevelIndexValid ==
    /\ current_level \in 0..(get_level_count - 1)
    /\ level_data = LEVELS[current_level + 1]
    /\ is_unlocked => RiverOfLevel(current_level)

\* the last level has been won, the first level loaded again and its river
\* unlocked
LevelIndexValidWitness ==
    /\ highest_level_completed = get_level_count
    /\ saved_progress = get_level_count
    /\ current_level = 0
    /\ is_unlocked
    /\ RiverOfLevel(0)

(***************************************************************************)
(* Boarding undone                                                         *)
(***************************************************************************)

\* C37: add_to_boat followed at once by remove_from_boat of the same
\* character is the identity on the engine: after a successful
\* add_to_boat(id), remove_from_boat(id) succeeds and leaves the bank
\* counts, the boat side, the crew (content and order), the character
\* locations, move_count, the flags, the totals and the history exactly as
\* they were before the pair.
AddThenRemoveIsIdentity ==
    [][\/ UNCHANGED vars
       \/ \A id \in Ids : AddOk(id) =>
            \E before \in {vars} :
                /\ UNCHANGED <<boat_side, totals, move_count, flags,
                               move_history>>
                /\ remove_from_boat_returns(id)[1]'
                /\ (ENABLED (remove_from_boat(id) /\ vars' = before))'
      ]_vars

\* a character has boarded a boat that held one already, after a crossing
AddThenRemoveIsIdentityWitness ==
    /\ move_count >= 1
    /\ Len(boat_crew) = 2
    /\ Active
    /\ remove_from_boat_returns(boat_crew[2])[1]

(***************************************************************************)
(* A winning plan played on the river challenge of every level             *)
(***************************************************************************)

\* the crew the level's plan has for the crossing after move_count crossings
LevelCrew ==
    IF move_count < Len(RiverPlans[current_level + 1])
    THEN RiverPlans[current_level + 1][move_count + 1] ELSE <<>>

\* the characters the player picks from for the next place in the crew, of
\* the planned type and waiting on the boat's bank: the first or the last of
\* them for the first place, the first of them for the other places
LevelBoarders ==
    IF Len(boat_crew) < Len(LevelCrew)
    THEN LET waiting == {i \in get_characters_on_side(boat_side) :
                            characters[i].type = LevelCrew[Len(boat_crew) + 1]}
         IN  {i \in waiting :
                 \/ \A j \in waiting : i <= j
                 \/ (boat_crew = <<>> /\ \A j \in waiting : j <= i)}
    ELSE {}

\* the level's puzzle is solved: _on_crypto_solution(True) starts its river
LevelUnlock ==
    /\ ~is_unlocked
    /\ on_crypto_solution(TRUE)
    /\ UNCHANGED <<solver, crypto_ui, pending_checks, current_level,
                   highest_level_completed, saved_progress, apart>>

\* add_to_boat of a character the plan asks for
LevelBoard ==
    /\ is_unlocked
    /\ \E i \in LevelBoarders : add_to_boat(characters[i].id)
    /\ UNCHANGED session

\* travel once the planned crew is aboard
LevelTravel ==
    /\ is_unlocked
    /\ LevelCrew # <<>>
    /\ Len(boat_crew) = Len(LevelCrew)
    /\ travel
    /\ UNCHANGED session

NextLevels ==
    \/ LevelUnlock
    \/ LevelBoard
    \/ LevelTravel

SpecLevels == InitController /\ [][NextLevels]_allvars

\* C38: every supplied level is winnable.  From the initial river state of
\* each level, (3,3,2), (4,4,3) and (5,5,3), a sequence of add_to_boat and
\* travel calls reaches Won without passing through Lost: along the level's
\* plan the engine holds the level's game, is never Lost, every planned
\* boarding and every planned travel succeeds, and the last crossing of the
\* plan leaves the engine Won with everybody on the right bank.
EveryLevelWinnable ==
    is_unlocked =>
        /\ totals = <<LEVELS[current_level + 1].final_k,
                      LEVELS[current_level + 1].final_m,
                      LEVELS[current_level + 1].final_c>>
        /\ ~Lost
        /\ move_count <= Len(RiverPlans[current_level + 1])
        /\ move_count < Len(RiverPlans[current_level + 1]) =>
              /\ Active
              /\ Len(boat_crew) <= Len(LevelCrew)
              /\ Len(boat_crew) < Len(LevelCrew) =>
                    /\ LevelBoarders # {}
                    /\ \A i \in LevelBoarders :
                          add_to_boat_returns(characters[i].id)[1]
              /\ Len(boat_crew) = Len(LevelCrew) => travel_returns[1]
        /\ move_count = Len(RiverPlans[current_level + 1]) =>
              /\ Won
              /\ missionaries_right = LEVELS[current_level + 1].final_m
              /\ cannibals_right = LEVELS[current_level + 1].final_c
              /\ boat_crew = <<>>

\* the third level's river won
EveryLevelWinnableWitness ==
    /\ is_unlocked
    /\ current_level = 2
    /\ Won
    /\ missionaries_right = 5
    /\ cannibals_right = 5
    /\ move_count = Len(RiverPlans[3])

(***************************************************************************)
(* Recovery from a loss, the timer granted its due                         *)
(***************************************************************************)

\* Tk runs every callback queued by after() once its delay has passed: a
\* status check that is queued comes due
SpecControllerFair == SpecController /\ WF_allvars(CheckGameStatusDue)

\* C39: a loss is always recovered: whenever the engine becomes Lost while
\* the challenge is unlocked, the status check queued by the crossing comes
\* due and restarts the engine, so that the engine does not stay Lost.
LossRecovered == (Lost /\ is_unlocked) ~> ~Lost

(***************************************************************************)
(* The river challenge of the single-file game (cryptic_crossings.py):     *)
(* win and loss are looked for only by the callback travel() queues        *)
(***************************************************************************)

\* the number of check_game_status callbacks queued at once
MaxScheduled == 1

\* the last level (by index) whose river is played
MaxSingleLevel == 0

\* init_river_challenge(m_total, c_total, capacity, force_reset) on the
\* state dict
init_river_challenge(state, m_total, c_total, capacity, force_reset) ==
    IF ~state.is_unlocked /\ ~force_reset THEN state
    ELSE [state EXCEPT
             !.total_m = m_total, !.total_c = c_total,
             !.boat_capacity = capacity, !.boat_side = "left",
             !.M_L = m_total, !.C_L = c_total, !.M_R = 0, !.C_R = 0,
             !.boat_crew = <<>>,
             !.characters =
                 [i \in 1..(m_total + c_total) |->
                     IF i <= m_total
                     THEN [id |-> MId(i), type |-> "M", location |-> "left"]
                     ELSE [id |-> CId(i), type |-> "C", location |-> "left"]]]

\* on_input_change of render_cryptarithmetic for a digit typed into the
\* entry of a letter
single_on_input_change(letter, digit) ==
    /\ game' = [game EXCEPT !.state.current_guess =
                   IF \E l \in DOMAIN @ \ {letter} : @[l] = digit
                   THEN [l \in DOMAIN @ \ {letter} |-> @[l]]
                   ELSE (letter :> digit) @@ @]
    /\ UNCHANGED <<after_checks, save_file>>

\* CrypticCrossingsGame.solve_puzzle of cryptic_crossings.py
single_solve_puzzle ==
    LET ld == LEVELS[game.current_level_index + 1]
        is_valid == validate_cryptarithmetic_single_file(
                        ld, game.state.current_guess)[1]
    IN  /\ game' = [game EXCEPT !.state =
                       IF is_valid
                       THEN init_river_challenge(
                                [@ EXCEPT !.is_unlocked = TRUE],
                                ld.final_m, ld.final_c, ld.final_k, FALSE)
                       ELSE [@ EXCEPT !.is_unlocked = FALSE]]
        /\ UNCHANGED <<after_checks, save_file>>

\* the position of a character in state['characters'], 0 for None
single_character(char_id) ==
    IF \E i \in DOMAIN game.state.characters :
           game.state.characters[i].id = char_id
    THEN CHOOSE i \in DOMAIN game.state.characters :
             /\ game.state.characters[i].id = char_id
             /\ \A j \in DOMAIN game.state.characters :
                   game.state.characters[j].id = char_id => i <= j
    ELSE 0

\* the bank count a character of type char_type on side counts in
BankCount(side, char_type) ==
    IF side = "left" THEN (IF char_type = "M" THEN "M_L" ELSE "C_L")
    ELSE (IF char_type = "M" THEN "M_R" ELSE "C_R")

\* select_character(char_id)
select_character(char_id) ==
    LET state == game.state
        char == single_character(char_id)
    IN  /\ game' =
              IF ~state.is_unlocked \/ char = 0 THEN game
              ELSE IF state.characters[char].location = "boat"
              THEN [game EXCEPT
                       !.state.characters[char].location = state.boat_side,
                       !.state.boat_crew = ListRemove(@, char_id),
                       !.state[BankCount(state.boat_side,
                                         state.characters[char].type)] = @ + 1]
              ELSE IF state.characters[char].location = state.boat_side
              THEN IF Len(state.boat_crew) < state.boat_capacity
                   THEN [game EXCEPT
                            !.state.characters[char].location = "boat",
                            !.state.boat_crew = Append(@, char_id),
                            !.state[BankCount(state.boat_side,
                                              state.characters[char].type)]
                                = @ - 1]
                   ELSE game
              ELSE game
        /\ UNCHANGED <<after_checks, save_file>>

RECURSIVE single_land(_, _, _)

\* the loop of travel over the crew: each character found goes ashore on
\* new_side and is counted there
single_land(state, crew, new_side) ==
    IF crew = <<>> THEN state
    ELSE LET char == CHOOSE i \in DOMAIN state.characters \cup {0} :
                         \/ /\ i # 0
                            /\ state.characters[i].id = Head(crew)
                            /\ \A j \in DOMAIN state.characters :
                                  state.characters[j].id = Head(crew) => i <= j
                         \/ /\ i = 0
                            /\ \A j \in DOMAIN state.characters :
                                  state.characters[j].id # Head(crew)
         IN  single_land(
                 IF char = 0 THEN state
                 ELSE [state EXCEPT
                          !.characters[char].location = new_side,
                          ![BankCount(new_side, state.characters[char].type)]
                              = @ + 1],
                 Tail(crew), new_side)

\* travel() of cryptic_crossings.py: nothing but an empty boat stops the
\* crossing, and the status is left to the callback queued
single_travel ==
    IF game.state.boat_crew = <<>>
    THEN UNCHANGED single_file
    ELSE LET new_side == IF game.state.boat_side = "left" THEN "right"
                         ELSE "left"
         IN  /\ game' = [game EXCEPT !.state =
                            [single_land([@ EXCEPT !.boat_side = new_side],
                                         @.boat_crew, new_side)
                                EXCEPT !.boat_crew = <<>>]]
             /\ after_checks' = after_checks + 1
             /\ UNCHANGED save_file

\* the two tests of check_game_status, on the bank counts as they are when
\* it runs
single_unsafe ==
    \/ ~is_safe(game.state.M_L, game.state.C_L)
    \/ ~is_safe(game.state.M_R, game.state.C_R)

single_won == game.state.M_L = 0 /\ game.state.C_L = 0

\* check_game_status of cryptic_crossings.py
single_check_game_status ==
    IF single_unsafe
    THEN /\ game' = [game EXCEPT !.state =
                        init_river_challenge(@, @.total_m, @.total_c,
                                             @.boat_capacity, TRUE)]
         /\ UNCHANGED save_file
    ELSE IF single_won
    THEN /\ game' =
              [game EXCEPT
                  !.highest_level_completed =
                      IF game.current_level_index >= @
                      THEN game.current_level_index + 1 ELSE @,
                  !.current_level_index =
                      IF @ < Len(LEVELS) - 1 THEN single_level_index(@ + 1)
                      ELSE single_level_index(0),
                  !.state = single_load_level(@)]
         /\ save_file' =
              IF game.current_level_index >= game.highest_level_completed
              THEN game.current_level_index + 1 ELSE save_file
    ELSE UNCHANGED <<game, save_file>>

\* the player types the level's solution, one entry after the other
SingleInputChange ==
    /\ \E i \in 1..Len(LEVELS[game.current_level_index + 1].unique_letters) :
          /\ Cardinality(DOMAIN game.state.current_guess) = i - 1
          /\ single_on_input_change(
                 LEVELS[game.current_level_index + 1].unique_letters[i],
                 LEVELS[game.current_level_index + 1].solution[
                     LEVELS[game.current_level_index + 1].unique_letters[i]])
    /\ UNCHANGED <<vars, solver, crypto_ui, controller, search>>

\* the Solve button, on the levels whose river is played
SingleSolvePuzzle ==
    /\ game.current_level_index <= MaxSingleLevel
    /\ single_solve_puzzle
    /\ UNCHANGED <<vars, solver, crypto_ui, controller, search>>

\* a click on any character drawn
SelectCharacter ==
    /\ \E i \in DOMAIN game.state.characters :
          select_character(game.state.characters[i].id)
    /\ UNCHANGED <<vars, solver, crypto_ui, controller, search>>

\* the row button, which render_river_crossing enables while the challenge
\* is unlocked and somebody is aboard
SingleTravel ==
    /\ game.state.is_unlocked
    /\ game.state.boat_crew # <<>>
    /\ after_checks < MaxScheduled
    /\ single_travel
    /\ UNCHANGED <<vars, solver, crypto_ui, controller, search>>

\* a callback queued by travel comes due
SingleCheckGameStatusDue ==
    /\ after_checks > 0
    /\ after_checks' = after_checks - 1
    /\ single_check_game_status
    /\ UNCHANGED <<vars, solver, crypto_ui, controller, search>>

InitSingleFile ==
    /\ EngineInit
    /\ SolverInit
    /\ SearchInit
    /\ ControllerInit(0)
    /\ SingleFileInit(0)

NextSingleFile ==
    \/ SingleInputChange
    \/ SingleSolvePuzzle
    \/ SelectCharacter
    \/ SingleTravel
    \/ SingleCheckGameStatusDue

SpecSingleFile == InitSingleFile /\ [][NextSingleFile]_allvars

\* C40: in the single-file game, where win and loss are looked for only by
\* the callback queued 1000 ms after travel(), nothing done before the
\* callback runs changes what it evaluates, and a win is declared only with
\* an empty boat: when the boat has landed its crew on a bank that is now
\* unsafe and the callback is queued, a click on a character leaves a bank
\* unsafe, so that the callback answers the crossing by the failure reset,
\* and the callback that declares the level won finds nobody aboard.
EvaluatedAsLanded ==
    [][ /\ (/\ after_checks > 0
            /\ single_unsafe
            /\ game.state.boat_crew = <<>>
            /\ SelectCharacter) => single_unsafe'
        /\ (SingleCheckGameStatusDue /\ ~single_unsafe /\ single_won) =>
              game.state.boat_crew = <<>> ]_allvars

====
